---- MODULE Spec2Model ----
(***************************************************************************)
(* Model of the faceted filter of the RoboCOIN data manager               *)
(* (docs/js/modules/filter-manager.js, class FilterManager): the facet     *)
(* index and its hierarchy tree, the selection set, the filter evaluator,  *)
(* the affected-count calculator and the debounced change notification.    *)
(*                                                                         *)
(* Representation.                                                         *)
(*  - A JavaScript string is a sequence of tokens.  A token is a TLA+      *)
(*    string standing for a run of characters that contains neither of     *)
(*    the separators ":" and ">" (which are tokens of their own), so that  *)
(*    template-literal concatenation is \o and String.split is Split.      *)
(*  - An optional value (a field that may be undefined) is a sequence of   *)
(*    length 0 (None) or 1 (Some(x)).                                      *)
(*  - A hierarchy Map<label, {children, isLeaf}> is a function from the    *)
(*    root-to-node label sequences of its nodes to [isLeaf : BOOLEAN]; the *)
(*    children Map of the node at p holds the nodes at Append(p, l).       *)
(***************************************************************************)
EXTENDS Integers, Sequences, FiniteSets, TLC

\* ------------------------------------------------------------------------
\* Strings and optional values
\* ------------------------------------------------------------------------
None == <<>>

Some(x) == <<x>>

Str(tok) == <<tok>>

COLON == ":"

GT == ">"

\* index of the first occurrence of tok in s, 0 when there is none
IndexOfTok(s, tok) ==
  IF \E i \in 1..Len(s) : s[i] = tok
  THEN CHOOSE i \in 1..Len(s) : s[i] = tok /\ \A j \in 1..(i-1) : s[j] # tok
  ELSE 0

\* String.prototype.split(sep) for a one-character separator
RECURSIVE Split(_, _)
Split(s, sep) ==
  LET i == IndexOfTok(s, sep)
  IN IF i = 0 THEN <<s>>
     ELSE <<SubSeq(s, 1, i-1)>> \o Split(SubSeq(s, i+1, Len(s)), sep)

\* Array.prototype.indexOf, 0-based as in JavaScript, -1 when absent
ArrayIndexOf(arr, x) ==
  IF \E i \in 1..Len(arr) : arr[i] = x
  THEN (CHOOSE i \in 1..Len(arr) : arr[i] = x /\ \A j \in 1..(i-1) : arr[j] # x) - 1
  ELSE -1

\* Array.prototype.includes
Includes(arr, x) == \E i \in 1..Len(arr) : arr[i] = x

SeqRange(s) == { s[i] : i \in 1..Len(s) }

\* String.prototype.toLowerCase on the characters the catalog names use
LowerTok(c) ==
  CASE c = "A"  -> "a"
    [] c = "B"  -> "b"
    [] c = "F"  -> "f"
    [] c = "R1" -> "r1"
    [] OTHER    -> c

ToLowerCase(s) == [ i \in 1..Len(s) |-> LowerTok(s[i]) ]

\* String.prototype.includes: sub occurs in s as a contiguous run
StrIncludes(s, sub) ==
  \E i \in 0..(Len(s) - Len(sub)) : SubSeq(s, i+1, i+Len(sub)) = sub

\* ------------------------------------------------------------------------
\* The catalog (this.datasets): immutable after load
\* ------------------------------------------------------------------------
K_scene == Str("scene")

K_robot == Str("robot")

K_end == Str("end")

K_action == Str("action")

K_object == Str("object")

\* the facet keys of buildFilterGroups, in categoryOrder
Keys == { K_scene, K_robot, K_end, K_action, K_object }

\* ds.robot is absent, a scalar string or an array of strings
RobotNone == [ kind |-> "none", val |-> <<>> ]

RobotScalar(r) == [ kind |-> "scalar", val |-> <<r>> ]

RobotArray(rs) == [ kind |-> "array", val |-> rs ]

Obj(h) == [ hierarchy |-> Some(h) ]

Catalog ==
  << [ name |-> <<"A", "b">>,
       scenes |-> Some(<< <<"k", COLON, "x">> >>),
       robot |-> RobotScalar(Str("r1")),
       endEffector |-> Some(Str("g")),
       actions |-> Some(<< Str("p") >>),
       objects |-> Some(<< Obj(<< Str("t"), Str("h") >>), Obj(<< Str("t") >>) >>) ],
     [ name |-> <<"b", "A">>,
       scenes |-> Some(<< Str("k"), <<"k", COLON, "x">> >>),
       robot |-> RobotArray(<< Str("r1") >>),
       endEffector |-> None,
       actions |-> None,
       objects |-> Some(<< Obj(<< Str("f") >>), Obj(<< Str("f"), Str("f"), Str("h") >>) >>) ],
     [ name |-> <<"a">>,
       scenes |-> None,
       robot |-> RobotNone,
       endEffector |-> Some(Str("g")),
       actions |-> Some(<< Str("p") >>),
       objects |-> None ] >>

\* a catalog whose object tree has a label both above and below another
DeepCatalog ==
  << [ name |-> <<"a">>,
       scenes |-> Some(<< Str("k") >>),
       robot |-> RobotScalar(Str("r1")),
       endEffector |-> None,
       actions |-> None,
       objects |-> Some(<< Obj(<< Str("h"), Str("f"), Str("h") >>), Obj(<< Str("t") >>) >>) ] >>

\* ------------------------------------------------------------------------
\* Hierarchy tree and facet index
\* ------------------------------------------------------------------------
EmptyTree == << >>

HasNode(tree, p) == p \in DOMAIN tree

\* node.children as the set of child paths
ChildrenOf(tree, p) ==
  { q \in DOMAIN tree : Len(q) = Len(p) + 1 /\ SubSeq(q, 1, Len(p)) = p }

\* nodes strictly below p
DescendantsOf(tree, p) ==
  { q \in DOMAIN tree : Len(q) > Len(p) /\ SubSeq(q, 1, Len(p)) = p }

LastLabel(p) == p[Len(p)]

\* levels.forEach: create the node at each prefix that does not exist yet;
\* isLeaf is written only when the node is created
RECURSIVE AddLevels(_, _, _)
AddLevels(tree, levels, idx) ==
  IF idx > Len(levels) THEN tree
  ELSE LET p == SubSeq(levels, 1, idx)
           t2 == IF HasNode(tree, p) THEN tree
                 ELSE (p :> [ isLeaf |-> (idx = Len(levels)) ]) @@ tree
       IN AddLevels(t2, levels, idx + 1)

\* addToHierarchy that re-marks the nodes of the path on every insertion
addToHierarchyRemarking(tree, optLevels) ==
  IF optLevels = None \/ Len(optLevels[1]) = 0 THEN tree
  ELSE LET t2 == AddLevels(tree, optLevels[1], 1)
       IN [ q \in DOMAIN t2 |->
              IF Len(q) <= Len(optLevels[1]) /\ SubSeq(optLevels[1], 1, Len(q)) = q
              THEN [ isLeaf |-> (q = optLevels[1]) ]
              ELSE t2[q] ]

\* addToHierarchy that creates every node with isLeaf false
addToHierarchyUnmarked(tree, optLevels) ==
  IF optLevels = None \/ Len(optLevels[1]) = 0 THEN tree
  ELSE LET t2 == AddLevels(tree, optLevels[1], 1)
       IN [ q \in DOMAIN t2 |->
              IF q \in DOMAIN tree THEN tree[q] ELSE [ isLeaf |-> FALSE ] ]

\* addToHierarchy that files an absent or empty hierarchy under a node of
\* its own
addToHierarchyUnguarded(tree, optLevels) ==
  IF optLevels = None \/ Len(optLevels[1]) = 0
  THEN AddLevels(tree, << Str("undefined") >>, 1)
  ELSE AddLevels(tree, optLevels[1], 1)

\* addToHierarchy(hierarchyMap, levels); levels is optional
addToHierarchy(tree, optLevels) ==
  IF optLevels = None \/ Len(optLevels[1]) = 0 THEN tree
  ELSE AddLevels(tree, optLevels[1], 1)

RECURSIVE AddAll(_, _, _)
AddAll(tree, objs, i) ==
  IF i > Len(objs) THEN tree
  ELSE AddAll(addToHierarchy(tree, objs[i].hierarchy), objs, i + 1)

RECURSIVE BuildTree(_, _, _)
BuildTree(tree, ds, i) ==
  IF i > Len(ds) THEN tree
  ELSE BuildTree(IF ds[i].objects = None THEN tree
                 ELSE AddAll(tree, ds[i].objects[1], 1), ds, i + 1)

OptElems(optSeq) == IF optSeq = None THEN {} ELSE SeqRange(optSeq[1])

\* if (x) for an optional string: undefined and '' are falsy
Truthy(optStr) == optStr # None /\ optStr[1] # <<>>

\* if (ds.robot): an array is truthy, a scalar as a string
RobotTruthy(robot) ==
  \/ robot.kind = "array"
  \/ robot.kind = "scalar" /\ robot.val[1] # <<>>

\* buildFilterGroups: the flat value sets and the object hierarchy
buildFilterGroups(ds) ==
  [ scene  |-> UNION { OptElems(ds[i].scenes) : i \in 1..Len(ds) },
    robot  |-> UNION { IF RobotTruthy(ds[i].robot) THEN SeqRange(ds[i].robot.val)
                       ELSE {} : i \in 1..Len(ds) },
    end    |-> UNION { IF Truthy(ds[i].endEffector) THEN { ds[i].endEffector[1] }
                       ELSE {} : i \in 1..Len(ds) },
    action |-> UNION { OptElems(ds[i].actions) : i \in 1..Len(ds) },
    object |-> BuildTree(EmptyTree, ds, 1) ]


\* hierarchyMap.forEach of countHierarchyItems over the child paths in S:
\* a node with children contributes the count of its children, any other 1
RECURSIVE CountItems(_, _)
CountItems(tree, S) ==
  IF S = {} THEN 0
  ELSE LET q == CHOOSE x \in S : TRUE
       IN (IF ChildrenOf(tree, q) # {} THEN CountItems(tree, ChildrenOf(tree, q))
           ELSE 1)
          + CountItems(tree, S \ { q })

\* a count of every node of the tree
countHierarchyItemsAllNodes(tree) == Cardinality(DOMAIN tree)

countHierarchyItems(tree) == CountItems(tree, ChildrenOf(tree, <<>>))

\* this.filterGroups[key]: present only for the five facet keys
HasGroup(key) == key \in Keys

IsHierarchical(key) == key = K_object

\* group.values of a flat facet
FlatValues(groups, key) ==
  CASE key = K_scene  -> groups.scene
    [] key = K_robot  -> groups.robot
    [] key = K_end    -> groups.end
    [] key = K_action -> groups.action
    [] OTHER          -> {}

\* `${parentPath}>${value}` accumulated from the root: the data-path of a node
RECURSIVE JoinPath(_)
JoinPath(p) ==
  IF Len(p) = 1 THEN p[1]
  ELSE JoinPath(SubSeq(p, 1, Len(p) - 1)) \o <<GT>> \o p[Len(p)]

\* the loop of findHierarchyNode from part i on; Some(node path) or None
RECURSIVE FindFrom(_, _, _)
FindFrom(tree, parts, i) ==
  IF i > Len(parts) THEN None
  ELSE LET p == SubSeq(parts, 1, i)
       IN IF ~HasNode(tree, p) THEN None
          ELSE IF ArrayIndexOf(parts, parts[i]) = Len(parts) - 1 THEN Some(p)
          ELSE FindFrom(tree, parts, i + 1)

findHierarchyNode(tree, path) == FindFrom(tree, Split(path, GT), 1)

\* ------------------------------------------------------------------------
\* Selection entries
\* ------------------------------------------------------------------------
\* `${filterKey}:${filterValue}`
filterId(key, value) == key \o <<COLON>> \o value

\* const [key, value] = filterId.split(':')
DecodeKey(id) == Split(id, COLON)[1]

DecodeValue(id) ==
  LET parts == Split(id, COLON)
  IN IF Len(parts) >= 2 THEN Some(parts[2]) ELSE None

\* a toggle that never removes
ToggleSelAddOnly(sel, key, value) == sel \cup { filterId(key, value) }

\* toggleFilterSelection on the selection set
ToggleSel(sel, key, value) ==
  IF filterId(key, value) \in sel
  THEN sel \ { filterId(key, value) }
  ELSE sel \cup { filterId(key, value) }

\* selectAllInHierarchy: every node whose isLeaf flag is set, by its own label
selectAllInHierarchy(sel, key, tree) ==
  sel \cup { filterId(key, LastLabel(p)) : p \in { q \in DOMAIN tree : tree[q].isLeaf } }

\* selectAllInGroup that flips every entry of the group instead of adding it
SelectAllInGroupSelFlipping(sel, groups, key) ==
  IF ~HasGroup(key) THEN sel
  ELSE LET ids == IF IsHierarchical(key)
                  THEN selectAllInHierarchy({}, key, groups.object)
                  ELSE { filterId(key, v) : v \in FlatValues(groups, key) }
       IN (sel \ ids) \cup (ids \ sel)

\* selectAllInGroup on the selection set
SelectAllInGroupSel(sel, groups, key) ==
  IF ~HasGroup(key) THEN sel
  ELSE IF IsHierarchical(key) THEN selectAllInHierarchy(sel, key, groups.object)
  ELSE sel \cup { filterId(key, v) : v \in FlatValues(groups, key) }

\* clearGroup with the key comparison inverted
ClearGroupSelInverted(sel, key) == { id \in sel : DecodeKey(id) = key }

\* clearGroup on the selection set
ClearGroupSel(sel, key) == { id \in sel : DecodeKey(id) # key }

\* the leaf test of selectLeafNodesRecursive and clearLeafNodesRecursive
IsLeafOrChildless(tree, p) == tree[p].isLeaf \/ ChildrenOf(tree, p) = {}

\* the labels visited as leaves by a recursive walk of node.children
LeafLabelsBelow(tree, p) ==
  { LastLabel(q) : q \in { d \in DescendantsOf(tree, p) : IsLeafOrChildless(tree, d) } }

selectLeafNodesRecursive(sel, key, tree, p) ==
  sel \cup { filterId(key, l) : l \in LeafLabelsBelow(tree, p) }

clearLeafNodesRecursive(sel, key, tree, p) ==
  sel \ { filterId(key, l) : l \in LeafLabelsBelow(tree, p) }

\* the early returns of select/clearAllChildrenInHierarchy
FoundNode(groups, key, path) ==
  IF ~HasGroup(key) \/ ~IsHierarchical(key) THEN None
  ELSE findHierarchyNode(groups.object, path)

SelectAllChildrenSel(sel, groups, key, path) ==
  LET n == FoundNode(groups, key, path)
  IN IF n = None THEN sel
     ELSE selectLeafNodesRecursive(sel, key, groups.object, n[1])

ClearAllChildrenSel(sel, groups, key, path) ==
  LET n == FoundNode(groups, key, path)
  IN IF n = None THEN sel
     ELSE clearLeafNodesRecursive(sel, key, groups.object, n[1])


\* ------------------------------------------------------------------------
\* Filter evaluator and affected-count calculator
\* ------------------------------------------------------------------------
\* Array.isArray(ds.robot) ? ds.robot : [ds.robot], as optional values
Robots(ds) ==
  IF ds.robot.kind = "none" THEN { None }
  ELSE { Some(r) : r \in SeqRange(ds.robot.val) }

\* the labels of all hierarchies of ds.objects; obj.hierarchy is dereferenced
\* unguarded there, and every entry of Catalog carries one
ObjectLabels(ds) ==
  IF ds.objects = None THEN {}
  ELSE UNION { OptElems(ds.objects[1][i].hierarchy) : i \in 1..Len(ds.objects[1]) }

\* the filters object of applyFilters: decoded key -> decoded values
FilterKeys(sel) == { DecodeKey(id) : id \in sel }

FilterValues(sel, key) == { DecodeValue(id) : id \in { x \in sel : DecodeKey(x) = key } }

\* the per-key branch of applyFilters; values holds optional strings
MatchKey(ds, key, values) ==
  CASE key = K_scene  -> \E v \in OptElems(ds.scenes) : Some(v) \in values
    [] key = K_robot  -> \E r \in Robots(ds) : r \in values
    [] key = K_end    -> ds.endEffector \in values
    [] key = K_action -> \E a \in OptElems(ds.actions) : Some(a) \in values
    [] key = K_object -> \E h \in ObjectLabels(ds) : Some(h) \in values
    [] OTHER          -> FALSE

\* the predicate of this.datasets.filter in applyFilters
Passes(ds, sel, searchQuery) ==
  /\ ~(searchQuery # <<>> /\ ~StrIncludes(ToLowerCase(ds.name), ToLowerCase(searchQuery)))
  /\ \A key \in FilterKeys(sel) : MatchKey(ds, key, FilterValues(sel, key))

RECURSIVE FilterFrom(_, _, _, _)
FilterFrom(ds, sel, searchQuery, i) ==
  IF i > Len(ds) THEN <<>>
  ELSE (IF Passes(ds[i], sel, searchQuery) THEN <<ds[i]>> ELSE <<>>)
       \o FilterFrom(ds, sel, searchQuery, i + 1)

applyFilters(ds, sel, searchQuery) == FilterFrom(ds, sel, searchQuery, 1)

\* Set.prototype.forEach visits the entries in insertion order: order is the
\* selection as the sequence of its entries, oldest first
KeyIndex(filters, key) ==
  IF \E j \in 1..Len(filters) : filters[j].key = key
  THEN CHOOSE j \in 1..Len(filters) : filters[j].key = key
  ELSE 0

\* the loop that fills the filters object: one [key, values] entry per key, in
\* the order the keys are first met, each value pushed in selection order
RECURSIVE CollectFilters(_, _, _)
CollectFilters(order, i, filters) ==
  IF i > Len(order) THEN filters
  ELSE LET key == DecodeKey(order[i])
           value == DecodeValue(order[i])
           j == KeyIndex(filters, key)
       IN CollectFilters(order, i + 1,
            IF j = 0 THEN Append(filters, [ key |-> key, values |-> <<value>> ])
            ELSE [ filters EXCEPT ![j].values = Append(@, value) ])

\* for (const [key, values] of Object.entries(filters)) with its early return
RECURSIVE PassesEntries(_, _, _)
PassesEntries(ds, filters, i) ==
  IF i > Len(filters) THEN TRUE
  ELSE IF ~MatchKey(ds, filters[i].key, SeqRange(filters[i].values)) THEN FALSE
  ELSE PassesEntries(ds, filters, i + 1)

RECURSIVE FilterInOrderFrom(_, _, _, _)
FilterInOrderFrom(ds, filters, searchQuery, i) ==
  IF i > Len(ds) THEN <<>>
  ELSE (IF /\ ~(searchQuery # <<>> /\
                ~StrIncludes(ToLowerCase(ds[i].name), ToLowerCase(searchQuery)))
           /\ PassesEntries(ds[i], filters, 1)
        THEN <<ds[i]>> ELSE <<>>)
       \o FilterInOrderFrom(ds, filters, searchQuery, i + 1)

\* applyFilters that tests only the key selected first
applyFiltersInOrderFirstKey(ds, order, searchQuery) ==
  LET filters == CollectFilters(order, 1, <<>>)
  IN FilterInOrderFrom(ds, IF Len(filters) = 0 THEN filters ELSE << filters[1] >>,
                       searchQuery, 1)

\* applyFilters on a selection given in insertion order
applyFiltersInOrder(ds, order, searchQuery) ==
  FilterInOrderFrom(ds, CollectFilters(order, 1, <<>>), searchQuery, 1)

\* the per-key branch of calculateAffectedCount
CountMatch(ds, filterKey, filterValue) ==
  CASE filterKey = K_scene  -> filterValue \in OptElems(ds.scenes)
    [] filterKey = K_robot  -> Some(filterValue) \in Robots(ds)
    [] filterKey = K_end    -> ds.endEffector = Some(filterValue)
    [] filterKey = K_action -> filterValue \in OptElems(ds.actions)
    [] filterKey = K_object -> filterValue \in ObjectLabels(ds)
    [] OTHER                -> FALSE

calculateAffectedCount(ds, filterKey, filterValue) ==
  Cardinality({ i \in 1..Len(ds) : CountMatch(ds[i], filterKey, filterValue) })

\* ds.objects.some(obj => obj.hierarchy.some/includes(...)) raises a
\* TypeError when it reaches an entry whose hierarchy is undefined: some()
\* stops at the first entry that matches one of values, so the entry is
\* reached when no entry before it matches
ObjectsThrow(ds, values) ==
  /\ ds.objects # None
  /\ \E j \in 1..Len(ds.objects[1]) :
       /\ ds.objects[1][j].hierarchy = None
       /\ \A i \in 1..(j - 1) :
            /\ ds.objects[1][i].hierarchy # None
            /\ ~\E h \in SeqRange(ds.objects[1][i].hierarchy[1]) : h \in values

\* calculateAffectedCount does not return: the callback of datasets.forEach
\* raises for some record
calculateAffectedCountThrows(ds, filterKey, filterValue) ==
  /\ filterKey = K_object
  /\ \E i \in 1..Len(ds) : ObjectsThrow(ds[i], { filterValue })

\* the loop over Object.entries(filters) for one record: it raises when it
\* reaches the object entry, every entry before it having matched
RECURSIVE EntriesThrow(_, _, _)
EntriesThrow(ds, filters, i) ==
  IF i > Len(filters) THEN FALSE
  ELSE IF filters[i].key = K_object
          /\ ObjectsThrow(ds, { v[1] : v \in { x \in SeqRange(filters[i].values) : x # None } })
       THEN TRUE
  ELSE IF ~MatchKey(ds, filters[i].key, SeqRange(filters[i].values)) THEN FALSE
  ELSE EntriesThrow(ds, filters, i + 1)

\* applyFilters does not return: the predicate of datasets.filter raises
\* for some record that the name query lets through
applyFiltersThrows(ds, order, searchQuery) ==
  \E i \in 1..Len(ds) :
    /\ ~(searchQuery # <<>> /\
         ~StrIncludes(ToLowerCase(ds[i].name), ToLowerCase(searchQuery)))
    /\ EntriesThrow(ds[i], CollectFilters(order, 1, <<>>), 1)


\* ------------------------------------------------------------------------
\* Timers (setTimeout / clearTimeout) and the debounced notification
\* ------------------------------------------------------------------------
\* the delay passed to setTimeout by scheduleFilterUpdate, in milliseconds
Delay == 150

\* granularity of the model clock, in milliseconds
TickMs == 75

\* pendingFilterUpdate = null
NoTimer == 0

Min(a, b) == IF a < b THEN a ELSE b

\* clearTimeout that cancels nothing
clearTimeoutNoop(tm, id) == tm

\* clearTimeout(id): the timer, if still outstanding, never fires
clearTimeout(tm, id) == [ i \in (DOMAIN tm) \ { id } |-> tm[i] ]

\* the handle setTimeout returns: handles are opaque, so the model takes the
\* least positive id that names no outstanding timer
FreshTimerId(tm) ==
  CHOOSE n \in 1..(Cardinality(DOMAIN tm) + 1) :
    n \notin DOMAIN tm /\ \A m \in 1..(n - 1) : m \in DOMAIN tm

\* scheduleFilterUpdate that returns after cancelling a pending timer
scheduleFilterUpdateCancelOnly(tm, pend) ==
  IF pend # NoTimer
  THEN [ timers |-> clearTimeout(tm, pend), pending |-> NoTimer ]
  ELSE [ timers  |-> (FreshTimerId(tm) :> [ elapsed |-> 0, old |-> FALSE ]) @@ tm,
         pending |-> FreshTimerId(tm) ]

\* scheduleFilterUpdate that starts a new timer next to the pending one
scheduleFilterUpdateNoCancel(tm, pend) ==
  [ timers  |-> (FreshTimerId(tm) :> [ elapsed |-> 0, old |-> FALSE ]) @@ tm,
    pending |-> FreshTimerId(tm) ]

\* scheduleFilterUpdate: cancel the pending timer, start a new one
scheduleFilterUpdate(tm, pend) ==
  LET t1 == IF pend # NoTimer THEN clearTimeout(tm, pend) ELSE tm
      id == FreshTimerId(t1)
  IN [ timers  |-> (id :> [ elapsed |-> 0, old |-> FALSE ]) @@ t1,
       pending |-> id ]

\* resetFilters that forgets the handle without cancelling the timer
CancelPendingForgetOnly(tm, pend) == [ timers |-> tm, pending |-> NoTimer ]

\* the first statement of resetFilters: cancel and forget the pending timer
CancelPending(tm, pend) ==
  IF pend # NoTimer
  THEN [ timers |-> clearTimeout(tm, pend), pending |-> NoTimer ]
  ELSE [ timers |-> tm, pending |-> pend ]

\* ------------------------------------------------------------------------
\* State
\* ------------------------------------------------------------------------
VARIABLES
  datasets,             \* this.datasets
  filterGroups,         \* this.filterGroups
  selectedFilters,      \* this.selectedFilters
  filterTags,           \* data-filter-id of the tags in #filterTagsContainer
  pendingFilterUpdate,  \* this.pendingFilterUpdate
  timers,               \* outstanding timeouts of scheduleFilterUpdate
  lastOp,               \* history: the last FilterManager method called
  dirty,                \* history: a mutation has not been notified yet
  sinceMutation,        \* history: time since the last scheduling call
  notified,             \* history: notifications since that call (capped)
  burstLen,             \* history: scheduling calls of the current burst (capped)
  staleFired,           \* history: a timer older than a reset has fired
  staticFilterCounts,   \* this.staticFilterCounts
  again,                \* history: the last call repeated the call before it
  openCategory,         \* the category rendered in #filterGroups
  finderInput,          \* #filterFinderInput.value
  filterFinderMatches,  \* this.filterFinderMatches, as the matched options
  filterFinderCurrentIndex, \* this.filterFinderCurrentIndex
  highlightMatch,       \* the options that carry the class highlight-match
  currentMatch,         \* the options that carry the class current-match
  searchHidden,         \* the wrappers that carry the class filter-search-hidden
  collapsed,            \* the .filter-children containers that are collapsed
  finderCount,          \* the pair shown in #filterFinderCount
  framePending,         \* the requestAnimationFrame callback of the panel is due
  lastExpanded,         \* history: containers the last finder step expanded
  indexBefore,          \* history: the index a query change has just replaced
  clickedBefore,        \* history: the option clicked by the step before a click
  raised                \* history: a handler has ended in an exception

vars == << datasets, filterGroups, selectedFilters, filterTags,
           pendingFilterUpdate, timers, lastOp, dirty, sinceMutation,
           notified, burstLen, staleFired, staticFilterCounts, again,
           openCategory, finderInput, filterFinderMatches,
           filterFinderCurrentIndex, highlightMatch, currentMatch,
           searchHidden, collapsed, finderCount, framePending, lastExpanded,
           indexBefore, clickedBefore, raised >>

\* the option panel and the Filter Finder
panelVars == << openCategory, finderInput, filterFinderMatches,
                filterFinderCurrentIndex, highlightMatch, currentMatch,
                searchHidden, collapsed, finderCount, framePending,
                lastExpanded, indexBefore, clickedBefore, raised >>

\* the method called and its facet key (its path for the per-node methods)
Op(name, key) == [ op |-> name, key |-> key ]

NoKey == <<>>

\* the labels of the nodes of a tree
TreeLabels(tree) == { LastLabel(p) : p \in DOMAIN tree }

\* the values a facet offers: group.values, node labels for the hierarchy
OptionValues(groups, key) ==
  IF IsHierarchical(key) THEN TreeLabels(groups.object)
  ELSE FlatValues(groups, key)

\* a data-path that names no node
MissingPath == Str("z")

\* a data-path whose first label names a node and whose second names none
MissingBelow == <<"t", GT, "z">>

\* the data-path arguments of the per-node All / Clear buttons
PathInputs(groups) ==
  { JoinPath(p) : p \in DOMAIN groups.object } \cup { MissingPath, MissingBelow }

\* the table key of the option whose entry is id
ValueOfId(groups, key, id) ==
  CHOOSE v \in OptionValues(groups, key) : filterId(key, v) = id

\* a refresh that counts the records passing the current selection
RefreshedCountsOfSelection(ds, groups, key) ==
  [ id \in { filterId(key, v) : v \in OptionValues(groups, key) } |->
      Len(applyFilters(ds, selectedFilters \cup { id }, <<>>)) ]

\* the entries updateStaticCountsForCategory writes: one per value of a flat
\* group, one per node label of the hierarchy (calculateStaticHierarchyCounts)
RefreshedCounts(ds, groups, key) ==
  [ id \in { filterId(key, v) : v \in OptionValues(groups, key) } |->
      calculateAffectedCount(ds, key, ValueOfId(groups, key, id)) ]

\* ------------------------------------------------------------------------
\* The option panel (#filterGroups) and the Filter Finder
\* ------------------------------------------------------------------------
\* group.title
Title(key) ==
  CASE key = K_scene  -> Str("scene")
    [] key = K_robot  -> Str("robot")
    [] key = K_end    -> <<"end", " ", "effector">>
    [] key = K_action -> Str("action")
    [] key = K_object -> <<"operation", " ", "object">>
    [] OTHER          -> <<>>

\* RobotAliasManager.getDisplayName: the alias of a robot id, the id itself
\* when it has none
getRobotDisplayLabel(robotId) ==
  IF robotId = Str("r1") THEN Str("R1") ELSE robotId

\* String.prototype.trim
RECURSIVE TrimStart(_)
TrimStart(s) ==
  IF s # <<>> /\ s[1] = " " THEN TrimStart(SubSeq(s, 2, Len(s))) ELSE s

RECURSIVE TrimEnd(_)
TrimEnd(s) ==
  IF s # <<>> /\ s[Len(s)] = " " THEN TrimEnd(SubSeq(s, 1, Len(s) - 1)) ELSE s

Trim(s) == TrimEnd(TrimStart(s))

\* the wrappers of the panel of category key, each named by the path of its
\* option: <<>> is the title wrapper (data-level 0), <<v>> a flat value, a
\* longer path a node of the hierarchy
PanelNodes(groups, key) ==
  IF ~HasGroup(key) THEN {}
  ELSE { <<>> } \cup
       (IF IsHierarchical(key) THEN DOMAIN groups.object
        ELSE { <<v>> : v \in FlatValues(groups, key) })

\* the wrappers nested directly in the .filter-children of wrapper p
PanelChildren(nodes, p) ==
  { q \in nodes : Len(q) = Len(p) + 1 /\ SubSeq(q, 1, Len(p)) = p }

\* the wrappers that hold a .filter-children container: the title wrapper
\* and every hierarchy option rendered with hasChildren
Containers(nodes) ==
  { p \in nodes : p = <<>> \/ PanelChildren(nodes, p) # {} }

\* labelElement.textContent.trim() of the option of wrapper p
LabelText(key, p) ==
  Trim(IF p = <<>> THEN Title(key)
       ELSE IF key = K_robot THEN getRobotDisplayLabel(p[1])
       ELSE LastLabel(p))

\* the characters of the labels, in code unit order
CodeUnits == << " ", "1", ":", ">", "A", "B", "F", "R1", "a", "b", "effector",
                "end", "f", "g", "h", "k", "object", "operation", "p", "r1",
                "robot", "s", "scene", "t", "x", "z", "zz" >>

TokRank(tok) == CHOOSE i \in 1..Len(CodeUnits) : CodeUnits[i] = tok

\* the order Array.prototype.sort and localeCompare put two labels in
StrLess(s, t) ==
  \E i \in 1..Len(t) :
    /\ \A j \in 1..(i - 1) : j <= Len(s) /\ s[j] = t[j]
    /\ (i > Len(s) \/ TokRank(s[i]) < TokRank(t[i]))

\* sibling wrappers in rendering order
RECURSIVE SortedSiblings(_)
SortedSiblings(S) ==
  IF S = {} THEN <<>>
  ELSE LET m == CHOOSE x \in S :
                  \A y \in S \ { x } : StrLess(LastLabel(x), LastLabel(y))
       IN <<m>> \o SortedSiblings(S \ { m })

\* querySelectorAll('.filter-option'): document order, i.e. the wrapper p
\* followed by the wrappers of its .filter-children, depth first
RECURSIVE RenderOrder(_, _)
RECURSIVE RenderEach(_, _, _)
RenderOrder(nodes, p) ==
  <<p>> \o RenderEach(nodes, SortedSiblings(PanelChildren(nodes, p)), 1)

RenderEach(nodes, sibs, i) ==
  IF i > Len(sibs) THEN <<>>
  ELSE RenderOrder(nodes, sibs[i]) \o RenderEach(nodes, sibs, i + 1)

\* a first pass that compares the label and the query as they are written
FindMatchesCaseSensitive(key, nodes, query) ==
  SelectSeq(RenderOrder(nodes, <<>>),
            LAMBDA p : StrIncludes(LabelText(key, p), query))

\* first pass of searchFilterOptions: the options whose label contains the
\* query, compared in lower case, in document order
FindMatches(key, nodes, query) ==
  SelectSeq(RenderOrder(nodes, <<>>),
            LAMBDA p : StrIncludes(ToLowerCase(LabelText(key, p)), ToLowerCase(query)))

\* the wrappers inside wrapper w, w included
Subtree(nodes, w) ==
  { q \in nodes : Len(q) >= Len(w) /\ SubSeq(q, 1, Len(w)) = w }

\* a second pass that looks at the wrapper's own option only
HiddenWrappersOwnOption(nodes, hl) == { w \in nodes : w \notin hl }

\* second pass: a wrapper with no highlighted option inside it is hidden
HiddenWrappers(nodes, hl) ==
  { w \in nodes : Subtree(nodes, w) \cap hl = {} }

\* the .filter-children containers around the option or wrapper p
ContainersAround(p) == { SubSeq(p, 1, n) : n \in 0..(Len(p) - 1) }

\* an expansion that opens the nearest container only
ExpandAroundNearest(coll, S) ==
  coll \ { SubSeq(p, 1, Len(p) - 1) : p \in { q \in S : q # <<>> } }

\* remove 'collapsed' from every container around the elements of S
ExpandAround(coll, S) == coll \ UNION { ContainersAround(p) : p \in S }

\* the % operator of JavaScript: the sign of the result is the dividend's
JsRem(a, n) == IF a >= 0 THEN a % n ELSE -((-a) % n)

\* a report that shows the index as it is stored
updateFilterFinderUIZeroBased(matches, index) ==
  [ current |-> IF Len(matches) > 0 THEN index ELSE 0,
    total   |-> Len(matches) ]

\* a sweep that leaves the marks where they are
RemoveMatchMarksKeeping(marks, highlight) == marks

\* clearFilterSearch on the options: a class is removed from the options
\* that carry 'highlight-match'
RemoveMatchMarks(marks, highlight) == marks \ highlight

\* updateFilterFinderUI: the text `${current}/${total}`
updateFilterFinderUI(matches, index) ==
  [ current |-> IF Len(matches) > 0 THEN index + 1 ELSE 0,
    total   |-> Len(matches) ]

\* the state after construction on the catalog ds: buildFilterGroups has
\* run and has opened the scene panel
InitOn(ds) ==
  /\ datasets = ds
  /\ filterGroups = buildFilterGroups(ds)
  /\ selectedFilters = {}
  /\ filterTags = {}
  /\ pendingFilterUpdate = NoTimer
  /\ timers = << >>
  /\ lastOp = Op("init", NoKey)
  /\ dirty = FALSE
  /\ sinceMutation = Delay
  /\ notified = 0
  /\ burstLen = 0
  /\ staleFired = FALSE
  /\ staticFilterCounts = RefreshedCounts(ds, buildFilterGroups(ds), K_scene)
  /\ again = FALSE
  /\ openCategory = K_scene
  /\ finderInput = <<>>
  /\ filterFinderMatches = <<>>
  /\ filterFinderCurrentIndex = -1
  /\ highlightMatch = {}
  /\ currentMatch = {}
  /\ searchHidden = {}
  /\ collapsed = Containers(PanelNodes(buildFilterGroups(ds), K_scene))
  /\ finderCount = updateFilterFinderUI(<<>>, -1)
  /\ framePending = TRUE
  /\ lastExpanded = {}
  /\ indexBefore = None
  /\ clickedBefore = None
  /\ raised = FALSE

Init == InitOn(Catalog)

\* the tail of every mutation: this.scheduleFilterUpdate()
Schedule(tm, pend) ==
  LET r == scheduleFilterUpdate(tm, pend)
  IN /\ timers' = r.timers
     /\ pendingFilterUpdate' = r.pending
     /\ dirty' = TRUE
     /\ sinceMutation' = 0
     /\ notified' = 0
     /\ burstLen' = IF dirty THEN Min(burstLen + 1, 2) ELSE 1

\* an early return that schedules a notification all the same
NoScheduleSchedules == Schedule(timers, pendingFilterUpdate)

NoSchedule ==
  UNCHANGED << timers, pendingFilterUpdate, dirty, sinceMutation, notified, burstLen >>

toggleFilterSelection(key, value) ==
  /\ selectedFilters' = ToggleSel(selectedFilters, key, value)
  /\ filterTags' = IF filterId(key, value) \in selectedFilters
                   THEN filterTags \ { filterId(key, value) }
                   ELSE filterTags \cup { filterId(key, value) }
  /\ Schedule(timers, pendingFilterUpdate)
  /\ lastOp' = Op("toggleFilterSelection", key)
  /\ again' = (lastOp = Op("toggleFilterSelection", key))
  /\ UNCHANGED << datasets, filterGroups, staleFired, staticFilterCounts >>
  /\ UNCHANGED panelVars

\* the close button of a tag
removeFilterTagById(id) ==
  /\ id \in filterTags
  /\ selectedFilters' = selectedFilters \ { id }
  /\ filterTags' = filterTags \ { id }
  /\ Schedule(timers, pendingFilterUpdate)
  /\ lastOp' = Op("removeFilterTagById", DecodeKey(id))
  /\ again' = FALSE
  /\ UNCHANGED << datasets, filterGroups, staleFired, staticFilterCounts >>
  /\ UNCHANGED panelVars

selectAllInGroup(key) ==
  /\ selectedFilters' = SelectAllInGroupSel(selectedFilters, filterGroups, key)
  /\ filterTags' = filterTags \cup (selectedFilters' \ selectedFilters)
  /\ IF HasGroup(key) THEN Schedule(timers, pendingFilterUpdate) ELSE NoSchedule
  /\ lastOp' = Op("selectAllInGroup", key)
  /\ again' = (lastOp = Op("selectAllInGroup", key))
  /\ UNCHANGED << datasets, filterGroups, staleFired, staticFilterCounts >>
  /\ UNCHANGED panelVars

clearGroup(key) ==
  /\ selectedFilters' = ClearGroupSel(selectedFilters, key)
  /\ filterTags' = filterTags \ (selectedFilters \ selectedFilters')
  /\ Schedule(timers, pendingFilterUpdate)
  /\ lastOp' = Op("clearGroup", key)
  /\ again' = (lastOp = Op("clearGroup", key))
  /\ UNCHANGED << datasets, filterGroups, staleFired, staticFilterCounts >>
  /\ UNCHANGED panelVars

selectAllChildrenInHierarchy(key, path) ==
  /\ selectedFilters' = SelectAllChildrenSel(selectedFilters, filterGroups, key, path)
  /\ filterTags' = filterTags \cup (selectedFilters' \ selectedFilters)
  /\ IF FoundNode(filterGroups, key, path) # None
     THEN Schedule(timers, pendingFilterUpdate) ELSE NoSchedule
  /\ lastOp' = Op("selectAllChildrenInHierarchy", path)
  /\ again' = (lastOp = Op("selectAllChildrenInHierarchy", path))
  /\ UNCHANGED << datasets, filterGroups, staleFired, staticFilterCounts >>
  /\ UNCHANGED panelVars

clearAllChildrenInHierarchy(key, path) ==
  /\ selectedFilters' = ClearAllChildrenSel(selectedFilters, filterGroups, key, path)
  /\ filterTags' = filterTags \ (selectedFilters \ selectedFilters')
  /\ IF FoundNode(filterGroups, key, path) # None
     THEN Schedule(timers, pendingFilterUpdate) ELSE NoSchedule
  /\ lastOp' = Op("clearAllChildrenInHierarchy", path)
  /\ again' = (lastOp = Op("clearAllChildrenInHierarchy", path))
  /\ UNCHANGED << datasets, filterGroups, staleFired, staticFilterCounts >>
  /\ UNCHANGED panelVars

\* a reset that sweeps the match list of the finder as well
resetFiltersWithFinder ==
  LET marked == [ i \in DOMAIN timers |-> [ timers[i] EXCEPT !.old = TRUE ] ]
      c == CancelPending(marked, pendingFilterUpdate)
  IN /\ selectedFilters' = {}
     /\ filterTags' = {}
     /\ Schedule(c.timers, c.pending)
     /\ lastOp' = Op("resetFilters", NoKey)
     /\ again' = (lastOp = Op("resetFilters", NoKey))
     /\ filterFinderMatches' = <<>>
     /\ filterFinderCurrentIndex' = -1
     /\ UNCHANGED << datasets, filterGroups, staleFired, staticFilterCounts >>
     /\ UNCHANGED << openCategory, finderInput, highlightMatch, currentMatch,
                     searchHidden, collapsed, finderCount, framePending,
                     lastExpanded, indexBefore, clickedBefore, raised >>

resetFilters ==
  LET marked == [ i \in DOMAIN timers |-> [ timers[i] EXCEPT !.old = TRUE ] ]
      c == CancelPending(marked, pendingFilterUpdate)
  IN /\ selectedFilters' = {}
     /\ filterTags' = {}
     /\ Schedule(c.timers, c.pending)
     /\ lastOp' = Op("resetFilters", NoKey)
     /\ again' = (lastOp = Op("resetFilters", NoKey))
     /\ UNCHANGED << datasets, filterGroups, staleFired, staticFilterCounts >>
     /\ UNCHANGED panelVars

\* the callback passed to setTimeout runs once the delay has elapsed
TimerFires(id) ==
  /\ id \in DOMAIN timers
  /\ timers[id].elapsed >= Delay
  /\ timers' = clearTimeout(timers, id)
  /\ pendingFilterUpdate' = NoTimer
  /\ dirty' = FALSE
  /\ notified' = Min(notified + 1, 2)
  /\ staleFired' = (staleFired \/ timers[id].old)
  /\ again' = FALSE
  /\ UNCHANGED << datasets, filterGroups, selectedFilters, filterTags, lastOp,
                  sinceMutation, burstLen, staticFilterCounts >>
  /\ UNCHANGED panelVars

\* time passes
Tick ==
  /\ timers' = [ i \in DOMAIN timers |->
                   [ timers[i] EXCEPT !.elapsed = Min(@ + TickMs, Delay) ] ]
  /\ sinceMutation' = Min(sinceMutation + TickMs, Delay)
  /\ again' = FALSE
  /\ UNCHANGED << datasets, filterGroups, selectedFilters, filterTags,
                  pendingFilterUpdate, lastOp, dirty, notified, burstLen,
                  staleFired, staticFilterCounts >>
  /\ UNCHANGED panelVars

\* a refresh that starts from an empty table
updateStaticCountsFromScratch(key) ==
  staticFilterCounts' =
    IF HasGroup(key) THEN RefreshedCounts(datasets, filterGroups, key)
    ELSE staticFilterCounts

\* updateStaticCountsForCategory(key) on the count table
updateStaticCountsForCategory(key) ==
  staticFilterCounts' =
    IF HasGroup(key)
    THEN RefreshedCounts(datasets, filterGroups, key) @@ staticFilterCounts
    ELSE staticFilterCounts

\* a step that is neither a query change nor a click on an option
NoFinderHistory ==
  /\ indexBefore' = None
  /\ clickedBefore' = None
  /\ UNCHANGED raised

\* the selection, the tags and the debounce timer are left alone
NoSelectionChange ==
  UNCHANGED << datasets, filterGroups, selectedFilters, filterTags,
               pendingFilterUpdate, timers, dirty, sinceMutation, notified,
               burstLen, staleFired >>

\* a search that makes the last match current
SearchResultFromLast(key, nodes, query, coll, kept) ==
  IF query = <<>>
  THEN [ matches |-> <<>>, index |-> -1, highlight |-> {}, current |-> kept,
         hidden |-> {}, collapsed |-> coll ]
  ELSE LET m == FindMatches(key, nodes, query)
           hid == HiddenWrappers(nodes, SeqRange(m))
           c1 == ExpandAround(coll, nodes \ hid)
       IN [ matches |-> m,
            index |-> Len(m) - 1,
            highlight |-> SeqRange(m),
            current |-> IF Len(m) > 0 THEN kept \cup { m[Len(m)] } ELSE kept,
            hidden |-> hid,
            collapsed |-> IF Len(m) > 0 THEN ExpandAround(c1, { m[Len(m)] }) ELSE c1 ]

\* the finder state searchFilterOptions(query) leaves on a panel whose
\* containers in coll are collapsed and whose options in kept still carry
\* 'current-match' after clearFilterSearch: both passes, then the first
\* match is made current
SearchResult(key, nodes, query, coll, kept) ==
  IF query = <<>>
  THEN [ matches |-> <<>>, index |-> -1, highlight |-> {}, current |-> kept,
         hidden |-> {}, collapsed |-> coll ]
  ELSE LET m == FindMatches(key, nodes, query)
           hid == HiddenWrappers(nodes, SeqRange(m))
           c1 == ExpandAround(coll, nodes \ hid)
       IN [ matches |-> m,
            index |-> IF Len(m) > 0 THEN 0 ELSE -1,
            highlight |-> SeqRange(m),
            current |-> IF Len(m) > 0 THEN kept \cup { m[1] } ELSE kept,
            hidden |-> hid,
            collapsed |-> IF Len(m) > 0 THEN ExpandAround(c1, { m[1] }) ELSE c1 ]

\* write a finder state to the panel and report it
SetFinder(r) ==
  /\ filterFinderMatches' = r.matches
  /\ filterFinderCurrentIndex' = r.index
  /\ highlightMatch' = r.highlight
  /\ currentMatch' = r.current
  /\ searchHidden' = r.hidden
  /\ collapsed' = r.collapsed
  /\ finderCount' = updateFilterFinderUI(r.matches, r.index)

\* a category switch that renders the new panel and keeps the finder as it is
selectCategoryKeepingMatches(key) ==
  /\ HasGroup(key)
  /\ openCategory' = key
  /\ collapsed' = Containers(PanelNodes(filterGroups, key))
  /\ lastExpanded' = {}
  /\ framePending' = TRUE
  /\ updateStaticCountsForCategory(key)
  /\ lastOp' = Op("selectCategory", key)
  /\ again' = (lastOp = Op("selectCategory", key))
  /\ NoFinderHistory
  /\ UNCHANGED << finderInput, filterFinderMatches, filterFinderCurrentIndex,
                  highlightMatch, currentMatch, searchHidden, finderCount >>
  /\ NoSelectionChange

\* a category button is clicked: the search is cleared, the panel is
\* rendered anew with every container collapsed, the counts of the category
\* are refreshed and a query still in the input is searched again
selectCategory(key) ==
  /\ HasGroup(key)
  /\ openCategory' = key
  /\ SetFinder(SearchResult(key, PanelNodes(filterGroups, key), Trim(finderInput),
                            Containers(PanelNodes(filterGroups, key)), {}))
  /\ lastExpanded' = {}
  /\ NoFinderHistory
  /\ framePending' = TRUE
  /\ updateStaticCountsForCategory(key)
  /\ lastOp' = Op("selectCategory", key)
  /\ again' = (lastOp = Op("selectCategory", key))
  /\ UNCHANGED finderInput
  /\ NoSelectionChange

\* the input event of #filterFinderInput: searchFilterOptions(value.trim())
searchFilterOptions(value) ==
  /\ finderInput' = value
  /\ SetFinder(SearchResult(openCategory, PanelNodes(filterGroups, openCategory),
                            Trim(value), collapsed,
                            RemoveMatchMarks(currentMatch, highlightMatch)))
  /\ lastExpanded' = collapsed \ collapsed'
  /\ indexBefore' = Some(filterFinderCurrentIndex)
  /\ clickedBefore' = None
  /\ UNCHANGED raised
  /\ lastOp' = Op("searchFilterOptions", NoKey)
  /\ again' = FALSE
  /\ UNCHANGED << openCategory, framePending, staticFilterCounts >>
  /\ NoSelectionChange

\* an index that stops at either end of the list
NextIndexNoWrap(index, n, direction) ==
  IF direction = "next" THEN (IF index + 1 < n THEN index + 1 ELSE index)
  ELSE (IF index > 0 THEN index - 1 ELSE index)

\* the index arithmetic of navigateFilterMatch
NextIndex(index, n, direction) ==
  IF direction = "next" THEN JsRem(index + 1, n) ELSE JsRem(index - 1 + n, n)

\* a navigation that moves to the head of the list when the list is empty
NavigatedIndexUnguarded(matches, index, direction) ==
  IF Len(matches) = 0 THEN 0 ELSE NextIndex(index, Len(matches), direction)

\* the index navigateFilterMatch(direction) leaves: it returns at once on
\* an empty list
NavigatedIndex(matches, index, direction) ==
  IF Len(matches) = 0 THEN index ELSE NextIndex(index, Len(matches), direction)

\* the Prev / Next buttons: navigateFilterMatch(direction)
navigateFilterMatch(direction) ==
  LET n == Len(filterFinderMatches)
      i == filterFinderCurrentIndex
      j == NavigatedIndex(filterFinderMatches, i, direction)
      cleared == IF i >= 0 /\ i < n
                 THEN currentMatch \ { filterFinderMatches[i + 1] }
                 ELSE currentMatch
  IN /\ filterFinderCurrentIndex' = j
     /\ IF n = 0
        THEN UNCHANGED << currentMatch, collapsed, finderCount >>
        ELSE /\ currentMatch' = cleared \cup { filterFinderMatches[j + 1] }
             /\ collapsed' = ExpandAround(collapsed, { filterFinderMatches[j + 1] })
             /\ finderCount' = updateFilterFinderUI(filterFinderMatches, j)
     /\ lastExpanded' = collapsed \ collapsed'
     /\ NoFinderHistory
     /\ lastOp' = Op("navigateFilterMatch", Str(direction))
     /\ again' = FALSE
     /\ UNCHANGED << openCategory, finderInput, filterFinderMatches,
                     highlightMatch, searchHidden, framePending,
                     staticFilterCounts >>
     /\ NoSelectionChange

\* Escape in the input, or the dropdown is closed: the input is emptied and
\* clearFilterSearch is called; lastOp keeps the text that was swept away
clearFilterSearch ==
  /\ finderInput' = <<>>
  /\ filterFinderMatches' = <<>>
  /\ filterFinderCurrentIndex' = -1
  /\ currentMatch' = RemoveMatchMarks(currentMatch, highlightMatch)
  /\ highlightMatch' = RemoveMatchMarks(highlightMatch, highlightMatch)
  /\ searchHidden' = {}
  /\ finderCount' = updateFilterFinderUI(<<>>, -1)
  /\ lastExpanded' = {}
  /\ NoFinderHistory
  /\ lastOp' = Op("clearFilterSearch", finderInput)
  /\ again' = FALSE
  /\ UNCHANGED << openCategory, collapsed, framePending, staticFilterCounts >>
  /\ NoSelectionChange

\* the requestAnimationFrame callback of renderCategoryOptions: the title's
\* container is opened and the click handlers are attached
RenderFrame ==
  /\ framePending
  /\ framePending' = FALSE
  /\ collapsed' = collapsed \ { <<>> }
  /\ lastExpanded' = {}
  /\ UNCHANGED << indexBefore, clickedBefore, raised >>
  /\ UNCHANGED << openCategory, finderInput, filterFinderMatches,
                  filterFinderCurrentIndex, highlightMatch, currentMatch,
                  searchHidden, finderCount, staticFilterCounts, lastOp,
                  again >>
  /\ NoSelectionChange

\* a click on a title or on a hierarchy option with children
ToggleCollapsed(c) ==
  /\ ~framePending
  /\ c \in Containers(PanelNodes(filterGroups, openCategory))
  /\ collapsed' = IF c \in collapsed THEN collapsed \ { c } ELSE collapsed \cup { c }
  /\ lastExpanded' = {}
  /\ NoFinderHistory
  /\ lastOp' = Op("toggleCollapsed", NoKey)
  /\ again' = FALSE
  /\ UNCHANGED << openCategory, finderInput, filterFinderMatches,
                  filterFinderCurrentIndex, highlightMatch, currentMatch,
                  searchHidden, finderCount, framePending, staticFilterCounts >>
  /\ NoSelectionChange

Mutation ==
  \/ \E key \in Keys : \E value \in OptionValues(filterGroups, key) :
       toggleFilterSelection(key, value)
  \/ \E id \in filterTags : removeFilterTagById(id)
  \/ \E key \in Keys : selectAllInGroup(key)
  \/ \E key \in Keys : clearGroup(key)
  \/ \E path \in PathInputs(filterGroups) : selectAllChildrenInHierarchy(K_object, path)
  \/ \E path \in PathInputs(filterGroups) : clearAllChildrenInHierarchy(K_object, path)
  \/ resetFilters

Next ==
  \/ Mutation
  \/ \E id \in DOMAIN timers : TimerFires(id)
  \/ Tick

Spec == Init /\ [][Next]_vars

\* the facets opened while the selection changes
OpenedKeys == { K_scene, K_object }

CountNext ==
  \/ Mutation
  \/ \E key \in OpenedKeys : selectCategory(key)

\* the selection operations interleaved with count refreshes
CountSpec == Init /\ [][CountNext]_vars

\* the labels of the object hierarchies a catalog under construction draws on
Labels == { Str("f"), Str("h") }

\* the longest hierarchy of such a catalog
MaxDepth == 2

\* the number of records of such a catalog
MaxRecords == 3

\* obj.hierarchy: absent, empty, or up to MaxDepth labels
HierarchyInputs ==
  { None } \cup
  { Some(h) : h \in UNION { [ 1..n -> Labels ] : n \in 0..MaxDepth } }

\* a record with one object; its scene, if any, is the root label
RecordOf(optH) ==
  [ name |-> <<"a">>,
    scenes |-> IF optH = None \/ optH[1] = <<>> THEN None ELSE Some(<< optH[1][1] >>),
    robot |-> RobotNone,
    endEffector |-> None,
    actions |-> None,
    objects |-> Some(<< [ hierarchy |-> optH ] >>) ]

TreeInit ==
  /\ datasets = <<>>
  /\ filterGroups = buildFilterGroups(<<>>)
  /\ selectedFilters = {}
  /\ filterTags = {}
  /\ pendingFilterUpdate = NoTimer
  /\ timers = << >>
  /\ lastOp = Op("init", NoKey)
  /\ dirty = FALSE
  /\ sinceMutation = Delay
  /\ notified = 0
  /\ burstLen = 0
  /\ staleFired = FALSE
  /\ staticFilterCounts = << >>
  /\ again = FALSE
  /\ openCategory = NoKey
  /\ finderInput = <<>>
  /\ filterFinderMatches = <<>>
  /\ filterFinderCurrentIndex = -1
  /\ highlightMatch = {}
  /\ currentMatch = {}
  /\ searchHidden = {}
  /\ collapsed = {}
  /\ finderCount = updateFilterFinderUI(<<>>, -1)
  /\ framePending = FALSE
  /\ lastExpanded = {}
  /\ indexBefore = None
  /\ clickedBefore = None
  /\ raised = FALSE

\* one more record reaches this.datasets.forEach of buildFilterGroups
CollectRecord(optH) ==
  /\ Len(datasets) < MaxRecords
  /\ datasets' = Append(datasets, RecordOf(optH))
  /\ filterGroups' = buildFilterGroups(datasets')
  /\ UNCHANGED << selectedFilters, filterTags, pendingFilterUpdate, timers,
                  lastOp, dirty, sinceMutation, notified, burstLen, staleFired,
                  staticFilterCounts, again >>
  /\ UNCHANGED panelVars

\* obj.hierarchy of an entry that carries no labels: undefined or []
NoHierarchy == { None, Some(<<>>) }

\* a record with a scene, a robot and two objects, the first of them
\* without labels
MixedRecordOf(optH) ==
  [ name |-> <<"b">>,
    scenes |-> Some(<< Str("k") >>),
    robot |-> RobotScalar(Str("r1")),
    endEffector |-> None,
    actions |-> None,
    objects |-> Some(<< [ hierarchy |-> optH ], Obj(<< Str("f"), Str("h") >>) >>) ]

\* a record with no facet field at all
BareRecord ==
  [ name |-> <<"z">>, scenes |-> None, robot |-> RobotNone,
    endEffector |-> None, actions |-> None, objects |-> None ]

\* one more record reaches the loop, whatever its shape
CollectAny(r) ==
  /\ Len(datasets) < MaxRecords
  /\ datasets' = Append(datasets, r)
  /\ filterGroups' = buildFilterGroups(datasets')
  /\ UNCHANGED << selectedFilters, filterTags, pendingFilterUpdate, timers,
                  lastOp, dirty, sinceMutation, notified, burstLen, staleFired,
                  staticFilterCounts, again >>
  /\ UNCHANGED panelVars

CollectMixedRecord(optH) == CollectAny(MixedRecordOf(optH))

CollectBareRecord == CollectAny(BareRecord)

TreeNext ==
  \/ \E optH \in HierarchyInputs : CollectRecord(optH)
  \/ \E optH \in NoHierarchy : CollectMixedRecord(optH)
  \/ CollectBareRecord

\* the facet index of every catalog of up to MaxRecords such records
TreeSpec == TreeInit /\ [][TreeNext]_vars

\* a facet key that buildFilterGroups never creates
UnknownKey == Str("zz")

\* the path such a call passes: one that names a node of the object tree
ApiPaths == { <<"t", GT, "h">> }

\* the FilterManager methods called by a script rather than from a rendered
\* option, so that the key need not name a group
ApiNext ==
  \/ \E key \in Keys : \E value \in OptionValues(filterGroups, key) :
       toggleFilterSelection(key, value)
  \/ toggleFilterSelection(UnknownKey, Str("h"))
  \/ selectAllInGroup(UnknownKey)
  \/ clearGroup(UnknownKey)
  \/ \E path \in ApiPaths : selectAllChildrenInHierarchy(UnknownKey, path)
  \/ \E path \in ApiPaths : clearAllChildrenInHierarchy(UnknownKey, path)

ApiSpec == Init /\ [][ApiNext]_vars

\* the texts typed into the finder
FinderInputs ==
  { <<>>, <<" ">>, <<" ", "F">>, Str("h"), Str("k"), Str("r1"), Str("object"),
    Str("zz") }

PanelNext ==
  \/ \E key \in Keys : selectCategory(key)
  \/ \E value \in FinderInputs : searchFilterOptions(value)
  \/ \E direction \in { "next", "prev" } : navigateFilterMatch(direction)
  \/ clearFilterSearch
  \/ RenderFrame
  \/ \E c \in Containers(PanelNodes(filterGroups, openCategory)) : ToggleCollapsed(c)

\* the catalogs the panel is opened on
PanelCatalogs == { Catalog, DeepCatalog }

PanelInit == \E ds \in PanelCatalogs : InitOn(ds)

\* the option panel, the Filter Finder and the lazy count refresh
PanelSpec == PanelInit /\ [][PanelNext]_vars

\* ------------------------------------------------------------------------
\* The open dropdown: clicks on options, the finder and the bulk buttons
\* ------------------------------------------------------------------------
\* an identifier made of the option's path
OptionValueOfPath(key, p) == JoinPath(p)

\* data-value of the option of wrapper p: the raw value of a flat option,
\* the node's own label for an option of the tree
OptionValue(key, p) == LastLabel(p)

\* the wrappers whose option carries data-filter and data-value: the flat
\* options and the tree options rendered without children
ClickableOptions(nodes) == nodes \ Containers(nodes)

\* the click handler the frame callback attaches to such an option:
\* toggleFilterSelection(option.dataset.filter, option.dataset.value, ...)
ClickOption(p) ==
  LET key == openCategory
      value == OptionValue(openCategory, p)
  IN /\ ~framePending
     /\ p \in ClickableOptions(PanelNodes(filterGroups, openCategory))
     /\ selectedFilters' = ToggleSel(selectedFilters, key, value)
     /\ filterTags' = IF filterId(key, value) \in selectedFilters
                      THEN filterTags \ { filterId(key, value) }
                      ELSE filterTags \cup { filterId(key, value) }
     /\ Schedule(timers, pendingFilterUpdate)
     /\ lastOp' = Op("clickOption", JoinPath(p))
     /\ again' = (lastOp = Op("clickOption", JoinPath(p)))
     /\ clickedBefore' = IF lastOp.op = "clickOption" THEN Some(lastOp.key) ELSE None
     /\ indexBefore' = None
     /\ UNCHANGED << datasets, filterGroups, staleFired, staticFilterCounts, raised,
                     openCategory, finderInput, filterFinderMatches,
                     filterFinderCurrentIndex, highlightMatch, currentMatch,
                     searchHidden, collapsed, finderCount, framePending,
                     lastExpanded >>

\* this.filterCounts: the constructor does not create the field and no
\* statement assigns it
filterCounts == None

\* updateFilterCounts begins with this.filterCounts.clear()
updateFilterCountsThrows == filterCounts = None

\* calculateStaticFilterCounts: the table is cleared and every option of
\* every facet is counted
calculateStaticFilterCounts(ds, groups) ==
  RefreshedCounts(ds, groups, K_scene) @@ RefreshedCounts(ds, groups, K_robot)
    @@ RefreshedCounts(ds, groups, K_end) @@ RefreshedCounts(ds, groups, K_action)
    @@ RefreshedCounts(ds, groups, K_object)

\* the filter button is clicked: the dropdown opens and initializeFilters
\* runs updateFilterCounts and then calculateStaticFilterCounts
initializeFilters ==
  /\ raised' = (raised \/ updateFilterCountsThrows)
  /\ staticFilterCounts' = IF updateFilterCountsThrows THEN staticFilterCounts
                           ELSE calculateStaticFilterCounts(datasets, filterGroups)
  /\ lastOp' = Op("initializeFilters", NoKey)
  /\ again' = (lastOp = Op("initializeFilters", NoKey))
  /\ indexBefore' = None
  /\ clickedBefore' = None
  /\ UNCHANGED << openCategory, finderInput, filterFinderMatches,
                  filterFinderCurrentIndex, highlightMatch, currentMatch,
                  searchHidden, collapsed, finderCount, framePending,
                  lastExpanded >>
  /\ NoSelectionChange

\* the queries typed while options are clicked
DropdownInputs == { Str("h"), Str("k") }

DropdownNext ==
  \/ initializeFilters
  \/ \E key \in OpenedKeys : selectCategory(key)
  \/ RenderFrame
  \/ \E p \in PanelNodes(filterGroups, openCategory) : ClickOption(p)
  \/ \E value \in DropdownInputs : searchFilterOptions(value)
  \/ \E direction \in { "next", "prev" } : navigateFilterMatch(direction)
  \/ clearFilterSearch
  \/ selectAllInGroup(openCategory)
  \/ clearGroup(openCategory)
  \/ resetFilters

\* the dropdown from the click on the filter button on
DropdownSpec == Init /\ [][DropdownNext]_vars

\* timers fire once due and time does not stop
FairSpec == Spec /\ WF_vars(Tick) /\ WF_vars(\E id \in DOMAIN timers : TimerFires(id))


\* ------------------------------------------------------------------------
\* Properties of the filter evaluator and of the count calculator
\* ------------------------------------------------------------------------
\* the free-text queries tried against the record names
Queries == { <<>>, <<"a">>, <<"A", "B">>, <<"b", "a">>, <<"x">> }

\* the values of facet key that are selected
SelectedValues(key) ==
  { v \in OptionValues(filterGroups, key) : filterId(key, v) \in selectedFilters }

\* a record matches one value of a facet
RecordMatches(r, key, v) ==
  CASE key = K_scene  -> r.scenes # None /\ Includes(r.scenes[1], v)
    [] key = K_action -> r.actions # None /\ Includes(r.actions[1], v)
    [] key = K_robot  -> r.robot.kind # "none" /\ Includes(r.robot.val, v)
    [] key = K_end    -> r.endEffector = Some(v)
    [] key = K_object -> /\ r.objects # None
                         /\ \E i \in 1..Len(r.objects[1]) :
                              /\ r.objects[1][i].hierarchy # None
                              /\ Includes(r.objects[1][i].hierarchy[1], v)

RecordPasses(r, q) ==
  /\ (q = <<>> \/ StrIncludes(ToLowerCase(r.name), ToLowerCase(q)))
  /\ \A key \in Keys :
       SelectedValues(key) # {} => \E v \in SelectedValues(key) : RecordMatches(r, key, v)

\* the positions of the records that pass, in catalog order
RECURSIVE PassingFrom(_, _)
PassingFrom(q, i) ==
  IF i > Len(datasets) THEN <<>>
  ELSE (IF RecordPasses(datasets[i], q) THEN <<datasets[i]>> ELSE <<>>)
       \o PassingFrom(q, i + 1)

\* C1: applyFilters(query) returns, in catalog order, exactly the records
\* whose name contains the query (case-insensitively, or the query is empty)
\* and which match, for every facet with a selected value, at least one of
\* that facet's selected values.
C1_ApplyFiltersExact ==
  \A q \in Queries : applyFilters(datasets, selectedFilters, q) = PassingFrom(q, 1)

\* C2: with only the entry of (f, v) selected, calculateAffectedCount(f, v)
\* is the number of records applyFilters("") returns.
C2_CountEqualsSingleSelection ==
  \A key \in Keys : \A v \in OptionValues(filterGroups, key) :
    selectedFilters = { filterId(key, v) } =>
      calculateAffectedCount(datasets, key, v)
        = Len(applyFilters(datasets, selectedFilters, <<>>))


\* ------------------------------------------------------------------------
\* Properties of the debounced notification
\* ------------------------------------------------------------------------
\* C3: mutations that arrive before the pending recomputation has fired
\* cancel and reschedule it: while a mutation awaits its notification exactly
\* one timer is outstanding and its delay runs from the last mutation, so at
\* most one notification fires for the burst, and none before the delay has
\* elapsed since the last mutation.
C3_DebounceCoalescing ==
  /\ notified <= 1
  /\ (sinceMutation < Delay => notified = 0)
  /\ (dirty => /\ DOMAIN timers = { pendingFilterUpdate }
               /\ timers[pendingFilterUpdate].elapsed = sinceMutation)
  /\ (~dirty => DOMAIN timers = {} /\ pendingFilterUpdate = NoTimer)

\* a burst of two or more mutations has been answered by one notification
C3_Witness == burstLen = 2 /\ notified = 1 /\ ~dirty

ResetLeavesOneFresh ==
  (lastOp' = Op("resetFilters", NoKey) /\ resetFilters) =>
                  /\ selectedFilters' = {}
                  /\ pendingFilterUpdate' # NoTimer
                  /\ DOMAIN timers' = { pendingFilterUpdate' }
                  /\ timers'[pendingFilterUpdate'].elapsed = 0
                  /\ ~timers'[pendingFilterUpdate'].old

C5_ResetCancelsAndReschedules ==
  /\ [][ResetLeavesOneFresh]_vars
  /\ [](~staleFired)
  /\ [](\A id \in DOMAIN timers : ~timers[id].old)

\* a reset arrived while the recomputation of an earlier mutation was pending
C5_Witness ==
  /\ lastOp.op = "resetFilters" /\ burstLen = 2
  /\ sinceMutation = 0 /\ Cardinality(DOMAIN timers) = 1


\* ------------------------------------------------------------------------
\* Properties of the selection operations
\* ------------------------------------------------------------------------
\* the entries of one facet
IdsOf(key) == { filterId(key, v) : v \in OptionValues(filterGroups, key) }

\* the hierarchies the catalog inserted into the object tree
InsertedPaths ==
  UNION { IF datasets[i].objects = None THEN {}
          ELSE UNION { IF datasets[i].objects[1][j].hierarchy = None THEN {}
                       ELSE { datasets[i].objects[1][j].hierarchy[1] } :
                       j \in 1..Len(datasets[i].objects[1]) } :
          i \in 1..Len(datasets) }

\* one toggle flips the entry of (key, value) and no other
ToggleFlipsOne ==
  \A key \in Keys : \A v \in OptionValues(filterGroups, key) :
    (lastOp' = Op("toggleFilterSelection", key) /\ toggleFilterSelection(key, v)) =>
      /\ (filterId(key, v) \in selectedFilters') = (filterId(key, v) \notin selectedFilters)
      /\ selectedFilters' \ { filterId(key, v) } = selectedFilters \ { filterId(key, v) }

\* C6: toggleFilterSelection(f, v) flips the membership of the entry of
\* (f, v) and of no other entry, and two toggles in succession restore the
\* selection, from every reachable selection.
C6_ToggleTwiceRestores ==
  /\ [][ToggleFlipsOne]_vars
  /\ [](\A key \in Keys : \A v \in OptionValues(filterGroups, key) :
          ToggleSel(ToggleSel(selectedFilters, key, v), key, v) = selectedFilters)

\* a toggle has just removed the only scene entry while other entries stay
C6_Witness ==
  /\ lastOp = Op("toggleFilterSelection", K_scene)
  /\ sinceMutation = 0 /\ burstLen = 2
  /\ SelectedValues(K_scene) = {}
  /\ selectedFilters # {}

\* C7: selectAllInGroup(f) selects every value of a flat facet and, for the
\* hierarchical facet, the label of every node at which an inserted path
\* ended; entries of other facets are neither added nor removed.
SelectAllSelectsEveryLeaf ==
  \A key \in Keys :
    (lastOp' = Op("selectAllInGroup", key) /\ selectAllInGroup(key)) =>
      /\ IF IsHierarchical(key)
         THEN \A p \in InsertedPaths : filterId(key, LastLabel(p)) \in selectedFilters'
         ELSE \A v \in FlatValues(filterGroups, key) : filterId(key, v) \in selectedFilters'
      /\ selectedFilters' \ IdsOf(key) = selectedFilters \ IdsOf(key)

C7_SelectAllInGroup == [][SelectAllSelectsEveryLeaf]_vars

\* C8: selectAllChildrenInHierarchy(f, path) selects every leaf strictly
\* below the node at path; the label of the path node itself is added only
\* when that node is a leaf without children.
SelectChildrenSelectsLeavesBelow ==
  \A p \in DOMAIN filterGroups.object :
    ( /\ lastOp' = Op("selectAllChildrenInHierarchy", JoinPath(p))
      /\ selectAllChildrenInHierarchy(K_object, JoinPath(p)) ) =>
      /\ \A d \in DescendantsOf(filterGroups.object, p) :
           IsLeafOrChildless(filterGroups.object, d) =>
             filterId(K_object, LastLabel(d)) \in selectedFilters'
      /\ filterId(K_object, LastLabel(p)) \in selectedFilters' \ selectedFilters =>
           /\ ChildrenOf(filterGroups.object, p) = {}
           /\ filterGroups.object[p].isLeaf

C8_SelectAllChildren == [][SelectChildrenSelectsLeavesBelow]_vars

\* clearGroup removes the entries of its facet and only those
ClearGroupClearsOneFacet ==
  \A key \in Keys :
    (lastOp' = Op("clearGroup", key) /\ clearGroup(key)) =>
      /\ selectedFilters' \cap IdsOf(key) = {}
      /\ selectedFilters' \ IdsOf(key) = selectedFilters \ IdsOf(key)

\* C9: clearGroup(f) removes every entry of facet f and leaves the entries
\* of every other facet unchanged.
C9_ClearGroupFrame == [][ClearGroupClearsOneFacet]_vars

\* the scene facet has just been cleared of a value that contains ':' while
\* entries of other facets stay selected
C9_Witness ==
  /\ lastOp = Op("clearGroup", K_scene)
  /\ sinceMutation = 0 /\ burstLen = 2
  /\ SelectedValues(K_scene) = {}
  /\ SelectedValues(K_robot) # {}
  /\ SelectedValues(K_object) # {}

\* C10: after clearAllChildrenInHierarchy(f, path) on an existing path no
\* entry of a leaf below that path is selected.
ClearChildrenClearsLeavesBelow ==
  \A p \in DOMAIN filterGroups.object :
    ( /\ lastOp' = Op("clearAllChildrenInHierarchy", JoinPath(p))
      /\ clearAllChildrenInHierarchy(K_object, JoinPath(p)) ) =>
      \A d \in DescendantsOf(filterGroups.object, p) :
        IsLeafOrChildless(filterGroups.object, d) =>
          filterId(K_object, LastLabel(d)) \notin selectedFilters'

C10_ClearAllChildren == [][ClearChildrenClearsLeavesBelow]_vars

\* a bulk operation called again with the arguments of the call before it
\* leaves the selection as the first call left it
RepeatKeepsSelection ==
  /\ \A key \in Keys :
       ( /\ lastOp = Op("selectAllInGroup", key) /\ lastOp' = lastOp
         /\ selectAllInGroup(key) ) => selectedFilters' = selectedFilters
  /\ \A key \in Keys :
       ( /\ lastOp = Op("clearGroup", key) /\ lastOp' = lastOp
         /\ clearGroup(key) ) => selectedFilters' = selectedFilters
  /\ \A path \in PathInputs(filterGroups) :
       ( /\ lastOp = Op("selectAllChildrenInHierarchy", path) /\ lastOp' = lastOp
         /\ selectAllChildrenInHierarchy(K_object, path) ) =>
         selectedFilters' = selectedFilters
  /\ \A path \in PathInputs(filterGroups) :
       ( /\ lastOp = Op("clearAllChildrenInHierarchy", path) /\ lastOp' = lastOp
         /\ clearAllChildrenInHierarchy(K_object, path) ) =>
         selectedFilters' = selectedFilters
  /\ ( /\ lastOp = Op("resetFilters", NoKey) /\ lastOp' = lastOp
       /\ resetFilters ) => selectedFilters' = selectedFilters

\* C11: selectAllInGroup, selectAllChildrenInHierarchy, clearGroup,
\* clearAllChildrenInHierarchy and resetFilters are idempotent on the
\* selection: applied twice in succession with the same arguments they leave
\* the selection the first application left.
C11_BulkOpsIdempotent == [][RepeatKeepsSelection]_vars

\* no mutation of the selection writes the count table
MutationKeepsCounts == staticFilterCounts' = staticFilterCounts \/ ~Mutation

\* every entry of the table is the count over the whole catalog
CountsAreCatalogCounts ==
  \A key \in Keys : \A v \in OptionValues(filterGroups, key) :
    filterId(key, v) \in DOMAIN staticFilterCounts =>
      staticFilterCounts[filterId(key, v)] = calculateAffectedCount(datasets, key, v)

\* C12: no selection mutation changes the static count table, and the value
\* an entry receives on refresh is the count over the whole catalog whatever
\* the selection is.
C12_CountsSelectionIndependent ==
  /\ [][MutationKeepsCounts]_vars
  /\ []CountsAreCatalogCounts

\* the scene and object counts were refreshed, and since the last refresh a
\* bulk clear has changed a selection that still holds entries
C12_Witness ==
  /\ filterId(K_scene, <<"k", COLON, "x">>) \in DOMAIN staticFilterCounts
  /\ filterId(K_object, Str("h")) \in DOMAIN staticFilterCounts
  /\ lastOp = Op("clearGroup", K_scene)
  /\ selectedFilters # {}

\* the facet keys in categoryOrder
KeyOrder == << K_scene, K_robot, K_end, K_action, K_object >>

\* Set.prototype.add / delete on the selection in insertion order
ToggleOrder(order, key, value) ==
  IF Includes(order, filterId(key, value))
  THEN SelectSeq(order, LAMBDA x : x # filterId(key, value))
  ELSE Append(order, filterId(key, value))

\* one insertion order of a selection
RECURSIVE SetToSeq(_)
SetToSeq(S) ==
  IF S = {} THEN <<>>
  ELSE LET x == CHOOSE y \in S : TRUE IN <<x>> \o SetToSeq(S \ { x })

\* C13: for entries a and b of different facets, neither selected, selecting
\* a then b yields the same selection set and the same applyFilters result,
\* for every query, as selecting b then a.
C13_IndependentFacetsCommute ==
  LET base == SetToSeq(selectedFilters) IN
  \A i \in 1..Len(KeyOrder) : \A j \in (i + 1)..Len(KeyOrder) :
   LET ka == KeyOrder[i]
       kb == KeyOrder[j]
   IN
    \A a \in OptionValues(filterGroups, ka) : \A b \in OptionValues(filterGroups, kb) :
      (filterId(ka, a) \notin selectedFilters /\ filterId(kb, b) \notin selectedFilters) =>
        LET ab == ToggleOrder(ToggleOrder(base, ka, a), kb, b)
            ba == ToggleOrder(ToggleOrder(base, kb, b), ka, a)
        IN /\ ToggleSel(ToggleSel(selectedFilters, ka, a), kb, b)
                = ToggleSel(ToggleSel(selectedFilters, kb, b), ka, a)
           /\ SeqRange(ab) = ToggleSel(ToggleSel(selectedFilters, ka, a), kb, b)
           /\ SeqRange(ab) = SeqRange(ba)
           /\ \A q \in Queries :
                /\ applyFiltersInOrder(datasets, ab, q) = applyFiltersInOrder(datasets, ba, q)
                /\ applyFiltersInOrder(datasets, ab, q)
                     = applyFilters(datasets, SeqRange(ab), q)

\* two entries of different facets have been selected one after the other on
\* top of an earlier selection, and a pair in two further facets is free
C13_Witness ==
  /\ lastOp.op = "toggleFilterSelection" /\ burstLen = 2
  /\ SelectedValues(K_scene) # {} /\ SelectedValues(K_object) # {}
  /\ SelectedValues(K_robot) = {} /\ SelectedValues(K_end) = {}

\* the path inputs that name no node of the object tree
AbsentPathInputs ==
  PathInputs(filterGroups) \ { JoinPath(p) : p \in DOMAIN filterGroups.object }

\* a per-node operation on a path that names no node changes nothing
MissingPathIsNoOp ==
  \A path \in AbsentPathInputs :
    ( \/ /\ lastOp' = Op("selectAllChildrenInHierarchy", path)
          /\ selectAllChildrenInHierarchy(K_object, path)
      \/ /\ lastOp' = Op("clearAllChildrenInHierarchy", path)
          /\ clearAllChildrenInHierarchy(K_object, path) ) =>
      /\ selectedFilters' = selectedFilters
      /\ filterTags' = filterTags
      /\ UNCHANGED << timers, pendingFilterUpdate, dirty, sinceMutation, notified >>

\* C19: selectAllChildrenInHierarchy and clearAllChildrenInHierarchy called
\* with a path that does not exist in the tree leave the selection unchanged
\* and schedule no recomputation.
C19_MissingPathNoOp == [][MissingPathIsNoOp]_vars

\* a clear on a path below an existing node that names no node has left a
\* selected leaf selected and nothing scheduled
C19_Witness ==
  /\ lastOp = Op("clearAllChildrenInHierarchy", MissingBelow)
  /\ filterId(K_object, Str("h")) \in selectedFilters
  /\ ~dirty /\ timers = << >> /\ pendingFilterUpdate = NoTimer

\* an operation called with a key that names no group changes nothing
UnknownKeyIsNoOp ==
  ( \/ lastOp' = Op("toggleFilterSelection", UnknownKey)
         /\ toggleFilterSelection(UnknownKey, Str("h"))
    \/ lastOp' = Op("selectAllInGroup", UnknownKey) /\ selectAllInGroup(UnknownKey)
    \/ lastOp' = Op("clearGroup", UnknownKey) /\ clearGroup(UnknownKey)
    \/ \E path \in ApiPaths :
         \/ selectAllChildrenInHierarchy(UnknownKey, path)
         \/ clearAllChildrenInHierarchy(UnknownKey, path) ) =>
    /\ selectedFilters' = selectedFilters
    /\ \A q \in Queries :
         applyFilters(datasets, selectedFilters', q)
           = applyFilters(datasets, selectedFilters, q)

\* C20: toggle, select-all, select-all-under, clear-group and clear-under
\* called with a facet key that is not in the facet index leave the selection
\* set and the result of applyFilters unchanged.
C20_UnknownKeyNoOp == [][UnknownKeyIsNoOp]_vars

\* selectAllInGroup('object') has just been repeated on a selection that
\* holds object entries and entries of another facet
C11_Witness ==
  /\ again /\ lastOp = Op("selectAllInGroup", K_object)
  /\ SelectedValues(K_object) # {}
  /\ SelectedValues(K_scene) # {}


\* ------------------------------------------------------------------------
\* Properties of the hierarchy tree
\* ------------------------------------------------------------------------
\* the non-empty hierarchies inserted so far
InsertedLevels == { p \in InsertedPaths : p # <<>> }

\* the hierarchy inserted by record i, as the optional value it was given as
HierarchyOf(i) == datasets[i].objects[1][1].hierarchy

IsProperPrefix(p, q) == Len(p) < Len(q) /\ SubSeq(q, 1, Len(p)) = p

\* C14: after any sequence of insertions a node's isLeaf flag is true if and
\* only if at least one inserted path ended at that node.
C14_IsLeafIffTerminal ==
  \A p \in DOMAIN filterGroups.object :
    filterGroups.object[p].isLeaf <=> p \in InsertedLevels

\* the catalog with its records in the order perm
Permuted(ds, perm) == [ i \in 1..Len(ds) |-> ds[perm[i]] ]

\* C15: every permutation of the catalog records yields the same flat value
\* sets and the same hierarchy tree, isLeaf flags included.
C15_RecordOrderInsensitive ==
  \A perm \in Permutations(1..Len(datasets)) :
    buildFilterGroups(Permuted(datasets, perm)) = filterGroups

\* inserting nothing, or a path inserted before, leaves the tree as it is
InsertAgainKeepsTree ==
  \A optH \in HierarchyInputs :
    ( /\ optH = None \/ optH[1] = <<>> \/ optH[1] \in InsertedLevels
      /\ Len(datasets') = Len(datasets) + 1
      /\ CollectRecord(optH) ) =>
      filterGroups'.object = filterGroups.object

\* C16: addToHierarchy with an empty or absent label sequence leaves the tree
\* unchanged, and inserting a path that was already inserted leaves nodes,
\* children and isLeaf flags unchanged.
C16_InsertIdempotent ==
  /\ [][InsertAgainKeepsTree]_vars
  /\ [] /\ addToHierarchy(filterGroups.object, None) = filterGroups.object
        /\ addToHierarchy(filterGroups.object, Some(<<>>)) = filterGroups.object
        /\ \A p \in InsertedLevels :
             addToHierarchy(filterGroups.object, Some(p)) = filterGroups.object

\* a path was inserted, then an empty hierarchy, then the same path again,
\* and the path has an ancestor node
C16_Witness ==
  /\ Len(datasets) = 3
  /\ HierarchyOf(1) = Some(<< Str("f"), Str("h") >>)
  /\ HierarchyOf(2) = Some(<<>>)
  /\ HierarchyOf(3) = HierarchyOf(1)

\* C17 as stated: countHierarchyItems(tree) is the number of distinct
\* inserted paths, also when one inserted path is a proper prefix of
\* another.
C17_CountIsInsertedPaths ==
  countHierarchyItems(filterGroups.object) = Cardinality(InsertedLevels)

\* C17: countHierarchyItems(tree) is the number of distinct inserted paths
\* that are not a proper prefix of another inserted path, whatever the
\* insertion order and however often a path was inserted.
C17_CountIsMaximalPaths ==
  countHierarchyItems(filterGroups.object)
    = Cardinality({ p \in InsertedLevels :
                      ~\E q \in InsertedLevels : IsProperPrefix(p, q) })

\* a path, then its proper prefix, then the path again: two distinct
\* inserted paths and one childless node
C17_Witness ==
  /\ Len(datasets) = 3
  /\ HierarchyOf(1) = Some(<< Str("f"), Str("h") >>)
  /\ HierarchyOf(2) = Some(<< Str("f") >>)
  /\ HierarchyOf(3) = HierarchyOf(1)
  /\ countHierarchyItems(filterGroups.object) = 1

\* the non-empty label sequences that name no node of the tree
AbsentPaths ==
  { h \in UNION { [ 1..n -> Labels ] : n \in 1..(MaxDepth + 1) } :
      ~HasNode(filterGroups.object, h) }

\* C18: findHierarchyNode returns the node for the '>'-joined labels of every
\* node of the tree, also when a label occurs at more than one depth, and
\* not-found for a path that is not in the tree.
C18_FindReturnsNode ==
  /\ \A p \in DOMAIN filterGroups.object :
       findHierarchyNode(filterGroups.object, JoinPath(p)) = Some(p)
  /\ \A p \in AbsentPaths :
       findHierarchyNode(filterGroups.object, JoinPath(p)) = None


\* ------------------------------------------------------------------------
\* Properties of records with missing or malformed fields
\* ------------------------------------------------------------------------
\* the entries of objs that carry at least one label
RECURSIVE WellFormedEntries(_, _)
WellFormedEntries(objs, i) ==
  IF i > Len(objs) THEN <<>>
  ELSE (IF objs[i].hierarchy \in NoHierarchy THEN <<>> ELSE << objs[i] >>)
       \o WellFormedEntries(objs, i + 1)

\* the catalog as it would be were the entries without labels absent
WithoutMalformed(ds) ==
  [ i \in 1..Len(ds) |->
      IF ds[i].objects = None THEN ds[i]
      ELSE [ ds[i] EXCEPT !.objects = Some(WellFormedEntries(ds[i].objects[1], 1)) ] ]

\* C21: an object entry whose hierarchy is absent or empty adds nothing to
\* the tree and does not stop the indexing: the index built from the catalog
\* is the index of the catalog without those entries, for the other fields
\* of the same record and for every other record.
C21_MalformedEntryIgnored ==
  filterGroups = buildFilterGroups(WithoutMalformed(datasets))

\* a record whose first entry has no hierarchy and whose second has one sits
\* between two other records: its scene, its robot and its second entry are
\* indexed, and so is the record after it
C21_Witness ==
  /\ Len(datasets) = 3
  /\ datasets[1] = RecordOf(Some(<<>>))
  /\ datasets[2] = MixedRecordOf(None)
  /\ datasets[3] = RecordOf(Some(<< Str("h") >>))
  /\ DOMAIN filterGroups.object = { << Str("f") >>, << Str("f"), Str("h") >>, << Str("h") >> }
  /\ filterGroups.scene = { Str("k"), Str("h") }
  /\ filterGroups.robot = { Str("r1") }

\* C22: applyFilters and calculateAffectedCount never fail on a catalog with
\* records that lack scenes, actions, robot or objects or that hold an object
\* entry without a hierarchy array: for every option of the index, counting
\* it and filtering by it alone return.
C22_EvaluationNeverFails ==
  \A key \in Keys : \A v \in OptionValues(filterGroups, key) :
    /\ ~calculateAffectedCountThrows(datasets, key, v)
    /\ ~applyFiltersThrows(datasets, << filterId(key, v) >>, <<>>)


\* ------------------------------------------------------------------------
\* Properties of the Filter Finder
\* ------------------------------------------------------------------------
\* the wrappers of the open panel
OpenNodes == PanelNodes(filterGroups, openCategory)

\* the query of the search in force
ActiveQuery == Trim(finderInput)

\* the label of option p contains the query, letter case aside
LabelContains(p, query) ==
  LET text == LabelText(openCategory, p)
  IN \E off \in 0..(Len(text) - Len(query)) :
       \A k \in 1..Len(query) : LowerTok(text[off + k]) = LowerTok(query[k])

\* p is rendered before q: it is an ancestor of q, or on the branch that
\* sorts first where their paths part
RenderedBefore(p, q) ==
  \/ IsProperPrefix(p, q)
  \/ \E i \in 1..Len(p) :
       /\ i <= Len(q)
       /\ SubSeq(p, 1, i - 1) = SubSeq(q, 1, i - 1)
       /\ p[i] # q[i]
       /\ StrLess(p[i], q[i])

\* the number of times p occurs in the match list
Occurrences(p) ==
  Cardinality({ i \in 1..Len(filterFinderMatches) : filterFinderMatches[i] = p })

\* C23: after searchFilterOptions(query) with a non-empty query the match
\* list holds each rendered option of the open panel exactly once if its
\* label contains the query case-insensitively and not at all otherwise, in
\* depth-first render order; an option whose full label is the query is in
\* the list exactly once.
C23_MatchListExact ==
  ActiveQuery # <<>> =>
    /\ \A p \in OpenNodes :
         Occurrences(p) = IF LabelContains(p, ActiveQuery) THEN 1 ELSE 0
    /\ \A i \in 1..Len(filterFinderMatches) :
         /\ filterFinderMatches[i] \in OpenNodes
         /\ \A j \in (i + 1)..Len(filterFinderMatches) :
              RenderedBefore(filterFinderMatches[i], filterFinderMatches[j])
    /\ \A p \in OpenNodes :
         ToLowerCase(LabelText(openCategory, p)) = ToLowerCase(ActiveQuery)
           => Occurrences(p) = 1

\* the query F, typed with a leading blank, has found the options f and
\* f > f of the object panel, in that order, and not f > f > h
C23_Witness ==
  /\ lastOp = Op("searchFilterOptions", NoKey)
  /\ datasets = Catalog
  /\ openCategory = K_object
  /\ finderInput = <<" ", "F">>
  /\ filterFinderMatches = << << Str("f") >>, << Str("f"), Str("f") >> >>

\* option p is shown by the search
Visible(p) == p \notin searchHidden

\* the label of p matches the query in force
OwnMatch(p) == LabelContains(p, ActiveQuery)

DescendantMatches(p) ==
  \E q \in OpenNodes : IsProperPrefix(p, q) /\ OwnMatch(q)

AncestorMatches(p) ==
  \E q \in OpenNodes : IsProperPrefix(q, p) /\ OwnMatch(q)

\* the hidden options are options of the open facet, and the facet index is
\* the index of the catalog
HiddenStayInData ==
  /\ searchHidden \subseteq OpenNodes
  /\ filterGroups = buildFilterGroups(datasets)

\* C24 as stated: every non-matching descendant of a match is hidden, also
\* one that has a matching descendant of its own.
C24_VisibleIffMatchAsStated ==
  ActiveQuery # <<>> =>
    /\ \A p \in OpenNodes :
         /\ Visible(p) <=> (OwnMatch(p) \/ DescendantMatches(p))
         /\ (~OwnMatch(p) /\ DescendantMatches(p)) => Visible(p)
         /\ (~OwnMatch(p) /\ AncestorMatches(p)) => ~Visible(p)
    /\ HiddenStayInData

\* C24: after a search with a non-empty query an option is visible if and
\* only if its own label matches or one of its descendants matches: a
\* non-matching ancestor of a match stays visible, a non-matching option
\* below a match is hidden unless one of its own descendants matches, and
\* hiding never removes the option from the facet data.
C24_VisibleIffMatch ==
  ActiveQuery # <<>> =>
    /\ \A p \in OpenNodes :
         /\ Visible(p) <=> (OwnMatch(p) \/ DescendantMatches(p))
         /\ (~OwnMatch(p) /\ DescendantMatches(p)) => Visible(p)
         /\ (~OwnMatch(p) /\ AncestorMatches(p) /\ ~DescendantMatches(p))
              => ~Visible(p)
    /\ HiddenStayInData

\* the query h on the tree h > f > h, t: the option f between the two
\* matches is shown, the option t is hidden and still an option of the facet
C24_Witness ==
  /\ lastOp = Op("searchFilterOptions", NoKey)
  /\ datasets = DeepCatalog
  /\ openCategory = K_object
  /\ ActiveQuery = Str("h")
  /\ filterFinderMatches = << << Str("h") >>, << Str("h"), Str("f"), Str("h") >> >>
  /\ Visible(<< Str("h"), Str("f") >>)
  /\ searchHidden = { << Str("t") >> }
  /\ << Str("t") >> \in DOMAIN filterGroups.object

\* the number of matches and the position among them
MatchCount == Len(filterFinderMatches)

Directions == { "next", "prev" }

\* one navigation step on a non-empty list moves the index cyclically and
\* keeps the list
NavigationStepsCyclically ==
  \A direction \in Directions :
    ( /\ lastOp' = Op("navigateFilterMatch", Str(direction))
      /\ MatchCount > 0
      /\ navigateFilterMatch(direction) ) =>
      /\ filterFinderCurrentIndex' =
           IF direction = "next"
           THEN (filterFinderCurrentIndex + 1) % MatchCount
           ELSE (filterFinderCurrentIndex - 1 + MatchCount) % MatchCount
      /\ filterFinderMatches' = filterFinderMatches

\* the index after k steps in one direction
RECURSIVE IndexAfter(_, _, _, _)
IndexAfter(index, n, direction, k) ==
  IF k = 0 THEN index
  ELSE IndexAfter(NavigatedIndex(filterFinderMatches, index, direction), n,
                  direction, k - 1)

\* while there are matches the index names one of them; as many steps as
\* there are matches, and a step forth and a step back, end where they began
NavigationReturns ==
  MatchCount > 0 =>
    /\ filterFinderCurrentIndex \in 0..(MatchCount - 1)
    /\ \A direction \in Directions :
         IndexAfter(filterFinderCurrentIndex, MatchCount, direction, MatchCount)
           = filterFinderCurrentIndex
    /\ NavigatedIndex(filterFinderMatches,
                      NavigatedIndex(filterFinderMatches, filterFinderCurrentIndex, "next"),
                      "prev") = filterFinderCurrentIndex

\* C25: with a non-empty match list of size n and current index i,
\* navigateFilterMatch('next') sets the index to (i + 1) mod n and
\* navigateFilterMatch('prev') to (i - 1 + n) mod n without changing the
\* list; n next calls return to the original position and next followed by
\* prev returns to the same match.
C25_CyclicNavigation ==
  /\ [][NavigationStepsCyclically]_vars
  /\ []NavigationReturns

\* next has wrapped from the last of two matches to the first, and prev
\* would wrap back
C25_Witness ==
  /\ lastOp = Op("navigateFilterMatch", Str("next"))
  /\ MatchCount = 2
  /\ filterFinderCurrentIndex = 0
  /\ currentMatch = { filterFinderMatches[1] }
  /\ NavigatedIndex(filterFinderMatches, 0, "prev") = 1

\* a navigation step on an empty list changes nothing of the finder
EmptyNavigationIsNoOp ==
  \A direction \in Directions :
    ( /\ lastOp' = Op("navigateFilterMatch", Str(direction))
      /\ MatchCount = 0
      /\ navigateFilterMatch(direction) ) =>
      /\ filterFinderMatches' = <<>>
      /\ filterFinderCurrentIndex' = -1
      /\ finderCount'.current = 0
      /\ UNCHANGED << openCategory, finderInput, highlightMatch, currentMatch,
                      searchHidden, collapsed, finderCount >>

\* C26: navigateFilterMatch with an empty match list is a no-op in either
\* direction: the list stays empty, the index stays at -1, the reported
\* position stays 0, and the call returns.
C26_EmptyNavigationNoOp ==
  /\ [][EmptyNavigationIsNoOp]_vars
  /\ [](MatchCount = 0 =>
          /\ filterFinderCurrentIndex = -1
          /\ finderCount = [ current |-> 0, total |-> 0 ]
          /\ \A direction \in Directions :
               NavigatedIndex(filterFinderMatches, filterFinderCurrentIndex, direction) = -1)

\* an arrow key was pressed while the query zz matches nothing
C26_Witness ==
  /\ lastOp \in { Op("navigateFilterMatch", Str(d)) : d \in Directions }
  /\ ActiveQuery = Str("zz")
  /\ MatchCount = 0
  /\ filterFinderCurrentIndex = -1
  /\ finderCount.current = 0

\* the option the finder currently points at
CurrentOption == filterFinderMatches[filterFinderCurrentIndex + 1]

\* the steps that make a match the current one
SelectsMatch ==
  lastOp.op \in { "navigateFilterMatch", "searchFilterOptions", "selectCategory" }

\* C27: immediately after a navigation step, and after a search that selects
\* a first match, every container on the path from the panel root to the
\* current match is expanded, whatever its state before the step.
C27_PathToMatchExpanded ==
  (SelectsMatch /\ MatchCount > 0) =>
    \A c \in Containers(OpenNodes) :
      IsProperPrefix(c, CurrentOption) => c \notin collapsed

\* next has moved to the match t > h whose container t had been collapsed
\* by a click after the search, and has opened it
C27_Witness ==
  /\ lastOp = Op("navigateFilterMatch", Str("next"))
  /\ datasets = Catalog
  /\ openCategory = K_object
  /\ MatchCount = 2
  /\ CurrentOption = << Str("t"), Str("h") >>
  /\ lastExpanded = { << Str("t") >> }

\* no query, no match, nothing highlighted, nothing hidden
Idle ==
  /\ filterFinderMatches = <<>>
  /\ filterFinderCurrentIndex = -1
  /\ highlightMatch = {}
  /\ currentMatch = {}
  /\ searchHidden = {}

\* C28: clearFilterSearch from any finder state, and a query change to the
\* empty string, lead to Idle: the match list is empty, the index is -1, no
\* option is highlighted and every option of the open panel is visible.
C28_ClearLeadsToIdle ==
  (lastOp.op = "clearFilterSearch" \/ ActiveQuery = <<>>) => Idle

\* Escape was pressed while the query h had two matches and hid t
C28_Witness ==
  /\ lastOp = Op("clearFilterSearch", Str("h"))
  /\ openCategory = K_object
  /\ finderInput = <<>>
  /\ Idle

\* C29: in every reachable finder state the reported total is the size of
\* the match list, the reported position is 0 if and only if the total is
\* 0, and otherwise it lies in 1..total and is the current index plus one.
C29_ReportedPosition ==
  /\ finderCount.total = MatchCount
  /\ finderCount.current = 0 <=> finderCount.total = 0
  /\ finderCount.total > 0 =>
       /\ finderCount.current \in 1..finderCount.total
       /\ finderCount.current = filterFinderCurrentIndex + 1

\* prev has wrapped from the first to the second of the two matches of the
\* scene panel: the report reads 2/2
C29_Witness ==
  /\ lastOp = Op("navigateFilterMatch", Str("prev"))
  /\ openCategory = K_scene
  /\ ActiveQuery = Str("k")
  /\ finderCount = [ current |-> 2, total |-> 2 ]


\* ------------------------------------------------------------------------
\* Properties of the lazy count refresh
\* ------------------------------------------------------------------------
\* the table keys of the options of facet key
TableIdsOf(key) == { filterId(key, v) : v \in OptionValues(filterGroups, key) }

\* opening a facet writes the entries of that facet only, and opening it
\* again writes nothing new
RefreshTouchesOneFacet ==
  \A key \in Keys :
    (lastOp' = Op("selectCategory", key) /\ selectCategory(key)) =>
      /\ DOMAIN staticFilterCounts' = DOMAIN staticFilterCounts \cup TableIdsOf(key)
      /\ \A id \in DOMAIN staticFilterCounts \ TableIdsOf(key) :
           staticFilterCounts'[id] = staticFilterCounts[id]
      /\ lastOp = Op("selectCategory", key) => staticFilterCounts' = staticFilterCounts

\* the facet just opened has, for each of its options, the count over the
\* catalog
OpenedFacetCounted ==
  lastOp.op = "selectCategory" =>
    \A v \in OptionValues(filterGroups, lastOp.key) :
      /\ filterId(lastOp.key, v) \in DOMAIN staticFilterCounts
      /\ staticFilterCounts[filterId(lastOp.key, v)]
           = calculateAffectedCount(datasets, lastOp.key, v)

\* C30: after selectCategory(k) for an existing facet k the static count
\* table holds calculateAffectedCount(k, v) for every option v of k (every
\* node label of the hierarchy); the entries of other facets are not
\* modified, and refreshing the same facet again leaves the table unchanged.
C30_RefreshOnOpen ==
  /\ [][RefreshTouchesOneFacet]_vars
  /\ []OpenedFacetCounted

\* the object panel was opened twice in a row after the scene panel: the
\* label h is counted in two records, and the scene entry is still there
C30_Witness ==
  /\ again /\ lastOp = Op("selectCategory", K_object)
  /\ datasets = Catalog
  /\ staticFilterCounts[filterId(K_object, Str("h"))] = 2
  /\ staticFilterCounts[filterId(K_object, Str("f"))] = 1
  /\ staticFilterCounts[filterId(K_scene, Str("k"))] = 1


\* ------------------------------------------------------------------------
\* Properties of the pending-task slot
\* ------------------------------------------------------------------------
\* C34: after any interleaving of selection mutations, resets and timer
\* firings at most one debounce timer is outstanding, and
\* pendingFilterUpdate is non-null if and only if such a timer is
\* outstanding, in which case it is the handle of that timer; it is null
\* again after the timer has fired.
C34_SinglePendingSlot ==
  /\ Cardinality(DOMAIN timers) <= 1
  /\ pendingFilterUpdate # NoTimer <=> DOMAIN timers # {}
  /\ DOMAIN timers # {} => DOMAIN timers = { pendingFilterUpdate }

\* a reset has arrived while the timer of an earlier mutation was pending:
\* one timer is outstanding, the one the reset has just started
C34_Witness ==
  /\ lastOp = Op("resetFilters", NoKey)
  /\ burstLen = 2
  /\ Cardinality(DOMAIN timers) = 1
  /\ pendingFilterUpdate \in DOMAIN timers
  /\ timers[pendingFilterUpdate].elapsed = 0


\* ------------------------------------------------------------------------
\* Properties of the selection identifier
\* ------------------------------------------------------------------------
\* C37: for every facet key f and every value v of its options, values with
\* a ':' included, decoding the identifier built for (f, v) the way
\* applyFilters, clearGroup and renderFilterTags do yields the pair (f, v).
C37_IdentifierRoundTrip ==
  \A key \in Keys : \A v \in OptionValues(filterGroups, key) :
    /\ DecodeKey(filterId(key, v)) = key
    /\ DecodeValue(filterId(key, v)) = Some(v)


\* ------------------------------------------------------------------------
\* Properties of the leaf tests
\* ------------------------------------------------------------------------
\* the labels selectAllInHierarchy would select in the subtree below p
FlaggedLabelsBelow(tree, p) ==
  { LastLabel(q) : q \in { d \in DescendantsOf(tree, p) : tree[d].isLeaf } }

\* C38: in every tree built by addToHierarchy every node without children
\* has isLeaf = true, so the leaf test of selectAllInHierarchy (isLeaf) and
\* that of selectLeafNodesRecursive and clearLeafNodesRecursive (isLeaf or
\* no children) pick the same nodes in every subtree.
C38_LeafTestsAgree ==
  LET tree == filterGroups.object
  IN /\ \A p \in DOMAIN tree : ChildrenOf(tree, p) = {} => tree[p].isLeaf
     /\ \A p \in DOMAIN tree : tree[p].isLeaf <=> IsLeafOrChildless(tree, p)
     /\ \A p \in DOMAIN tree \cup { <<>> } :
          FlaggedLabelsBelow(tree, p) = LeafLabelsBelow(tree, p)
     /\ selectAllInHierarchy({}, K_object, tree)
          = selectLeafNodesRecursive({}, K_object, tree, <<>>)

\* f was inserted as a path of its own and then as the parent of h: f is
\* flagged and has a child, h is childless, and both tests pick f and h
C38_Witness ==
  /\ Len(datasets) = 2
  /\ HierarchyOf(1) = Some(<< Str("f") >>)
  /\ HierarchyOf(2) = Some(<< Str("f"), Str("h") >>)
  /\ filterGroups.object[<< Str("f") >>].isLeaf
  /\ LeafLabelsBelow(filterGroups.object, <<>>) = { Str("f"), Str("h") }


\* ------------------------------------------------------------------------
\* Properties of the counts of indexed options
\* ------------------------------------------------------------------------
\* C39: every option of the facet index is backed by at least one record:
\* for every value v of a flat facet and every node label v of the
\* hierarchy built by buildFilterGroups, calculateAffectedCount(f, v)
\* returns a number that is at least 1 and at most the number of records.
C39_OptionsAreBacked ==
  \A key \in Keys : \A v \in OptionValues(filterGroups, key) :
    /\ ~calculateAffectedCountThrows(datasets, key, v)
    /\ calculateAffectedCount(datasets, key, v) \in 1..Len(datasets)


\* ------------------------------------------------------------------------
\* Properties of a query change and of a category switch
\* ------------------------------------------------------------------------
\* C35: a query change that produces at least one match always sets the
\* current match to the first match, reported as position 1, whatever the
\* index was before; a query change that produces no match leaves the index
\* at -1.
C35_QueryChangeStartsAtFirst ==
  [][\A value \in FinderInputs :
       (lastOp' = Op("searchFilterOptions", NoKey) /\ searchFilterOptions(value)) =>
         IF Len(filterFinderMatches') > 0
         THEN /\ filterFinderCurrentIndex' = 0
              /\ filterFinderMatches'[1] \in currentMatch'
              /\ Cardinality(currentMatch') = 1
              /\ finderCount'.current = 1
         ELSE /\ filterFinderCurrentIndex' = -1
              /\ currentMatch' = {}
              /\ finderCount'.current = 0]_vars

\* the query h is typed on the scene panel while the second match of an
\* earlier search was current: the first of its matches is current now
C35_Witness ==
  /\ lastOp = Op("searchFilterOptions", NoKey)
  /\ indexBefore = Some(1)
  /\ MatchCount >= 1
  /\ filterFinderCurrentIndex = 0
  /\ currentMatch = { filterFinderMatches[1] }
  /\ finderCount.current = 1

\* the options of the open panel whose label contains the query in force
MatchingOptions ==
  IF ActiveQuery = <<>> THEN {}
  ELSE { p \in OpenNodes : LabelContains(p, ActiveQuery) }

\* C36: selectCategory clears the finder and runs the search again with
\* the query still in the input against the new panel; every entry of the
\* match list, and every mark of the search, is on an option of the panel
\* that is open.
C36_MatchesOfOpenPanel ==
  /\ SeqRange(filterFinderMatches) \subseteq OpenNodes
  /\ highlightMatch \subseteq OpenNodes
  /\ currentMatch \subseteq OpenNodes
  /\ searchHidden \subseteq OpenNodes
  /\ lastOp.op = "selectCategory" =>
       /\ openCategory = lastOp.key
       /\ SeqRange(filterFinderMatches) = MatchingOptions
       /\ highlightMatch = MatchingOptions
       /\ filterFinderCurrentIndex = IF MatchingOptions = {} THEN -1 ELSE 0
       /\ currentMatch = IF MatchingOptions = {} THEN {} ELSE { filterFinderMatches[1] }

\* the object panel is opened while the query h, which had matched two
\* scenes, is in the input: the matches are the two options h of the
\* object tree
C36_Witness ==
  /\ lastOp = Op("selectCategory", K_object)
  /\ datasets = Catalog
  /\ finderInput = Str("h")
  /\ filterFinderMatches = << << Str("f"), Str("f"), Str("h") >>, << Str("t"), Str("h") >> >>
  /\ filterFinderCurrentIndex = 0


\* ------------------------------------------------------------------------
\* Properties of the open dropdown
\* ------------------------------------------------------------------------
\* the entries of the selection that belong to the object facet
ObjectEntries(sel) == { id \in sel : DecodeKey(id) = K_object }

\* the options of the object panel that can be clicked and show label l
OptionsLabelled(l) ==
  { p \in ClickableOptions(PanelNodes(filterGroups, K_object)) : LastLabel(p) = l }

\* C31: for the hierarchical facet a selection entry is keyed by the
\* node's own label and not by its path: every entry is the identifier of
\* a label, so there is at most one entry per label however many nodes
\* carry it, and a label toggled on through a node of one branch and then
\* toggled through a node of another branch is unselected.
C31_SelectionKeyedByLabel ==
  /\ [](/\ ObjectEntries(selectedFilters) \subseteq
             { filterId(K_object, l) : l \in TreeLabels(filterGroups.object) }
        /\ Cardinality(ObjectEntries(selectedFilters)) <=
             Cardinality(TreeLabels(filterGroups.object)))
  /\ [][\A l \in TreeLabels(filterGroups.object) :
         \A p \in OptionsLabelled(l) : \A q \in OptionsLabelled(l) \ { p } :
           ( /\ lastOp = Op("clickOption", JoinPath(p))
             /\ filterId(K_object, l) \in selectedFilters
             /\ lastOp' = Op("clickOption", JoinPath(q))
             /\ ClickOption(q) )
           => /\ filterId(K_object, l) \notin selectedFilters'
              /\ selectedFilters' = selectedFilters \ { filterId(K_object, l) }
              /\ filterTags' = filterTags \ { filterId(K_object, l) }]_vars

\* h was clicked under f > f and then under t: it is not selected
C31_Witness ==
  /\ lastOp = Op("clickOption", JoinPath(<< Str("t"), Str("h") >>))
  /\ clickedBefore = Some(JoinPath(<< Str("f"), Str("f"), Str("h") >>))
  /\ openCategory = K_object
  /\ filterId(K_object, Str("h")) \notin selectedFilters
  /\ ObjectEntries(selectedFilters) = {}

\* a step of the finder
FinderStep ==
  \/ \E value \in DropdownInputs : searchFilterOptions(value)
  \/ \E direction \in Directions : navigateFilterMatch(direction)
  \/ clearFilterSearch

\* a step that changes the selection from the open dropdown
SelectionStep ==
  \/ \E p \in PanelNodes(filterGroups, openCategory) : ClickOption(p)
  \/ selectAllInGroup(openCategory)
  \/ clearGroup(openCategory)
  \/ resetFilters

\* C32: searchFilterOptions, navigateFilterMatch and clearFilterSearch never
\* change the selection or its tags and never schedule a recomputation; the
\* selection mutations (toggle, select-all, clear, reset) never change the
\* match list or the current match index.
C32_FinderAndSelectionApart ==
  [][/\ (lastOp'.op \in { "searchFilterOptions", "navigateFilterMatch",
                          "clearFilterSearch" } /\ FinderStep)
        => UNCHANGED << selectedFilters, filterTags, pendingFilterUpdate,
                        timers, dirty, sinceMutation, notified, burstLen >>
     /\ (lastOp'.op \in { "clickOption", "selectAllInGroup", "clearGroup",
                          "resetFilters" } /\ SelectionStep)
        => UNCHANGED << filterFinderMatches, filterFinderCurrentIndex,
                        highlightMatch, currentMatch, finderCount >>]_vars

\* the scene k is selected and its notification is pending while Next has
\* moved from the first to the second of the two matches of the query k
C32_Witness ==
  /\ lastOp = Op("navigateFilterMatch", Str("next"))
  /\ finderInput = Str("k")
  /\ MatchCount = 2
  /\ filterFinderCurrentIndex = 1
  /\ selectedFilters = { filterId(K_scene, Str("k")) }
  /\ filterTags = selectedFilters
  /\ pendingFilterUpdate # NoTimer
  /\ burstLen = 1

\* the count table holds the count of every option of every facet
TableComplete ==
  \A key \in Keys : \A v \in OptionValues(filterGroups, key) :
    /\ filterId(key, v) \in DOMAIN staticFilterCounts
    /\ staticFilterCounts[filterId(key, v)] = calculateAffectedCount(datasets, key, v)

\* C33: initializeFilters, called each time the filter dropdown is opened,
\* completes without an error, and afterwards the count table holds
\* calculateAffectedCount for every option of every facet.
C33_InitializeFillsTable ==
  lastOp.op = "initializeFilters" => ~raised /\ TableComplete
====
